---- MODULE Spec2Model ----
(***************************************************************************)
(* Model of innvestigate/utils/keras/graph.py: the execution trace of a    *)
(* Keras model (trace_model_execution, get_model_execution_trace), the     *)
(* bottleneck analysis (get_bottleneck_nodes) and the generic backward     *)
(* pass (reverse_model with add_reversed_tensor / get_reversed_tensor).    *)
(*                                                                         *)
(* Tensors are identities (small integers).  A record of the execution     *)
(* list is [layer, Xs, Ys]; a layer is [kind, name] where kind "input"     *)
(* stands for keras.layers.InputLayer.  Python's None is the value None    *)
(* for integers and the empty sequence for lists.                          *)
(***************************************************************************)
EXTENDS Integers, Sequences, FiniteSets, TLC

VARIABLES
    model,             \* the Keras model: [inputs, outputs, nodes]
    pc,                \* position of the caller
    execution_list,    \* result of trace_model_execution (pruned list)
    kept,              \* positions of model.nodes that pruning kept
    id_trace,          \* result of get_model_execution_trace
    bottleneck,        \* result of get_bottleneck_nodes
    bottleneck_tensor_list, \* result of get_bottleneck_tensors
    stop,              \* stop_mapping_at_tensors
    config,            \* the other arguments of the calls
    reversed_tensors,  \* reverse_model: tensor -> ReverseTensorDict
    pos,               \* reverse_model: index _nid of the reverse walk
    calls,             \* reverse_model: the rule invocations made so far
    contribs,          \* per tensor, the values handed to add_reversed_tensor
    result,            \* reverse_model: reversed_input_tensors
    err,               \* the exception that ended the operation, or NoErr
    last_op,           \* the last contribute / resolve operation applied
    initialized_reverse_mappings,  \* reverse_model: layer -> resolved rule
    finished,          \* what the reverse_model calls made so far returned
    bottleneck_tensors,  \* reverse_model: the set of line 1060
    factory_calls,     \* the layers a rule factory or rule class was called for
    call,              \* layer -> its call method: "original" or "patched"
    monkey_patches,    \* trace_model_execution: the saved call methods
    recorded_nodes,    \* trace_model_execution: the recorded invocations
    remap_pos,         \* trace_model_execution: records the remapping pass did
    suspended          \* the local state of the reverse_model call that is waiting

vars == <<model, pc, execution_list, kept, id_trace, bottleneck,
          bottleneck_tensor_list, stop, config,
          reversed_tensors, pos, calls, contribs, result, err, last_op,
          initialized_reverse_mappings, finished, bottleneck_tensors,
          factory_calls, call, monkey_patches, recorded_nodes, remap_pos, suspended>>

interceptVars == <<call, monkey_patches, recorded_nodes, remap_pos>>

traceVars == <<execution_list, kept, id_trace, bottleneck, bottleneck_tensor_list>>

reverseVars == <<stop, config, reversed_tensors, pos, calls, contribs, result, err,
                 initialized_reverse_mappings, finished, bottleneck_tensors,
                   factory_calls>>

-----------------------------------------------------------------------------
(* Bounds of the model. *)

NumTensors == 4
MaxInputs == 2
MaxRecs == 3
MaxLen == 2
MaxOutputs == 2

(* Python's None, where an integer (a node id, a reversed value) is expected. *)
None == -9

NoErr == "none"

Tensors == 1..NumTensors

-----------------------------------------------------------------------------
(* Helpers on sequences and dictionaries. *)

Range(s) == {s[i] : i \in 1..Len(s)}

SeqsOver(S, n) == UNION {[1..k -> S] : k \in 1..n}

Max(S) == CHOOSE m \in S : \A x \in S : x <= m

RECURSIVE SumSeq(_)
SumSeq(s) == IF s = <<>> THEN 0 ELSE Head(s) + SumSeq(Tail(s))

EmptyDict == [k \in {} |-> 0]

DictPut(d, k, v) == [x \in (DOMAIN d) \cup {k} |-> IF x = k THEN v ELSE d[x]]

InputLayer(t) == [kind |-> "input", name |-> t]

Layer(n) == [kind |-> "layer", name |-> n]

(* A container (a model used as a layer); its graph is model.containers[n]. *)
Network(n) == [kind |-> "network", name |-> n]

IsInputLayer(l) == l.kind = "input"

is_network(l) == l.kind = "network"

-----------------------------------------------------------------------------
(* The models handed to the functions: recorded node lists in forward      *)
(* topological order.  Every model input has one InputLayer record, whose  *)
(* node has the input tensor as its input and output and which precedes    *)
(* the records consuming that tensor; every input tensor of another record *)
(* is a model input or an output of an earlier record.  With dup, a record *)
(* may output a tensor an earlier record already outputs (a malformed      *)
(* graph).  MaxRecs bounds the records that are not InputLayer records.    *)

Produced(nodes) ==
    UNION {Range(nodes[i].Ys) : i \in {j \in 1..Len(nodes) : ~IsInputLayer(nodes[j].layer)}}

NumLayers(nodes) ==
    Cardinality({j \in 1..Len(nodes) : ~IsInputLayer(nodes[j].layer)})

HasInputRecord(nodes) ==
    {nodes[j].layer.name : j \in {i \in 1..Len(nodes) : IsInputLayer(nodes[i].layer)}}

NextRecords(inputs, nodes, dup) ==
    LET avail == HasInputRecord(nodes) \cup Produced(nodes)
        fresh == Max(Range(inputs) \cup Produced(nodes)) + 1
        ys == (IF fresh <= NumTensors THEN {<<fresh>>} ELSE {})
              \cup (IF fresh + 1 <= NumTensors /\ MaxLen >= 2
                    THEN {<<fresh, fresh + 1>>} ELSE {})
              \cup (IF dup THEN {<<q>> : q \in Produced(nodes)} ELSE {})
    IN  {[layer |-> InputLayer(t), Xs |-> <<t>>, Ys |-> <<t>>] :
            t \in Range(inputs) \ HasInputRecord(nodes)}
        \cup (IF NumLayers(nodes) < MaxRecs
              THEN {[layer |-> Layer(NumLayers(nodes) + 1), Xs |-> xs, Ys |-> y] :
                      xs \in SeqsOver(avail, MaxLen), y \in ys}
              ELSE {})

Extend(inputs, l, dup) == {l} \cup {Append(l, r) : r \in NextRecords(inputs, l, dup)}

OutputLists(nodes) ==
    LET p == Produced(nodes)
    IN  {<<a>> : a \in p}
        \cup (IF MaxOutputs >= 2
              THEN {<<a, b>> : a \in p, b \in p} \ {<<a, a>> : a \in p}
              ELSE {})

(* m is one of the models: a node list grown one record at a time (at     *)
(* most 5 records), and its declared outputs.                              *)
IsModel(m, dup) ==
    \E n \in 1..MaxInputs :
       LET inputs == [i \in 1..n |-> i] IN
       \E l1 \in Extend(inputs, <<>>, dup) :
       \E l2 \in Extend(inputs, l1, dup) :
       \E l3 \in Extend(inputs, l2, dup) :
       \E l4 \in Extend(inputs, l3, dup) :
       \E l5 \in Extend(inputs, l4, dup) :
       \E o \in OutputLists(l5) :
          /\ HasInputRecord(l5) = Range(inputs)
          /\ m = [inputs |-> inputs, outputs |-> o, nodes |-> l5]

-----------------------------------------------------------------------------
(* trace_model_execution, flat path.  model.nodes is the node list in      *)
(* forward order (executed_nodes, line 666).  The pruning pass scans it in *)
(* reverse and keeps a record when all its outputs are in used_as_input.   *)

(* The pruning pass keeping a record as soon as one output is needed. *)
RECURSIVE PruneScan_any(_, _, _, _)
PruneScan_any(nodes, i, used_as_input, tmp) ==
    IF i = 0 THEN tmp
    ELSE IF \E k \in 1..Len(nodes[i].Ys) : nodes[i].Ys[k] \in used_as_input
         THEN PruneScan_any(nodes, i - 1, used_as_input \cup Range(nodes[i].Xs), <<i>> \o tmp)
         ELSE PruneScan_any(nodes, i - 1, used_as_input, tmp)

(* The pruning pass with line 678 outside the test of line 677: the inputs *)
(* of a dropped record count as used, too.                                 *)
RECURSIVE PruneScan_dropped_inputs(_, _, _, _)
PruneScan_dropped_inputs(nodes, i, used_as_input, tmp) ==
    IF i = 0 THEN tmp
    ELSE IF \A k \in 1..Len(nodes[i].Ys) : nodes[i].Ys[k] \in used_as_input
         THEN PruneScan_dropped_inputs(nodes, i - 1, used_as_input \cup Range(nodes[i].Xs),
                                       <<i>> \o tmp)
         ELSE PruneScan_dropped_inputs(nodes, i - 1, used_as_input \cup Range(nodes[i].Xs),
                                       tmp)

RECURSIVE PruneScan(_, _, _, _)
PruneScan(nodes, i, used_as_input, tmp) ==
    IF i = 0 THEN tmp
    ELSE IF \A k \in 1..Len(nodes[i].Ys) : nodes[i].Ys[k] \in used_as_input
         THEN PruneScan(nodes, i - 1, used_as_input \cup Range(nodes[i].Xs), <<i>> \o tmp)
         ELSE PruneScan(nodes, i - 1, used_as_input, tmp)

(* Lines 564-567: some layer of the model is a container. *)
contains_container(m) == \E i \in 1..Len(m.nodes) : is_network(m.nodes[i].layer)

(* Lines 388-401: the layers of the model and, recursively, of its         *)
(* containers (the containers themselves included).                        *)
get_model_layers(m) ==
    {m.nodes[i].layer : i \in 1..Len(m.nodes)}
    \cup UNION {{m.containers[c].nodes[i].layer : i \in 1..Len(m.containers[c].nodes)} :
                  c \in {m.nodes[i].layer.name :
                            i \in {j \in 1..Len(m.nodes) : is_network(m.nodes[j].layer)}}}

(* The tensors created by the intercepted re-execution (lines 614-617) and *)
(* by re-applying the layers in the remapping pass (line 646).             *)
Intercepted(c) == 10 + c

Canonical(c) == 20 + c

(* Lines 596-617: the re-execution of a graph on the tensors args with     *)
(* every layer's call patched.  A patched call appends its record after    *)
(* the original call has returned (lines 603-606), so the record of a      *)
(* container follows the records of the layers inside it.  The call of an  *)
(* InputLayer returns its input; every other call creates new tensors.     *)
RECURSIVE RunNodes(_, _, _, _, _, _)
RunNodes(containers, nodes, i, tensor_map, counter, executed_nodes) ==
    IF i > Len(nodes)
    THEN [tensor_map |-> tensor_map, counter |-> counter, executed_nodes |-> executed_nodes]
    ELSE LET layer == nodes[i].layer
             input_tensors == [k \in 1..Len(nodes[i].Xs) |-> tensor_map[nodes[i].Xs[k]]]
             inner == RunNodes(containers, containers[layer.name].nodes, 1,
                               [t \in Range(containers[layer.name].inputs) |->
                                   input_tensors[CHOOSE k \in 1..Len(input_tensors) :
                                       containers[layer.name].inputs[k] = t]],
                               counter, executed_nodes)
             output_tensors ==
                 IF IsInputLayer(layer) THEN input_tensors
                 ELSE IF is_network(layer)
                 THEN [k \in 1..Len(nodes[i].Ys) |->
                          inner.tensor_map[containers[layer.name].outputs[k]]]
                 ELSE [k \in 1..Len(nodes[i].Ys) |-> Intercepted(counter + k)]
             before == IF is_network(layer) THEN inner.executed_nodes ELSE executed_nodes
             counter2 == IF IsInputLayer(layer) THEN counter
                         ELSE IF is_network(layer) THEN inner.counter
                         ELSE counter + Len(nodes[i].Ys)
         IN  RunNodes(containers, nodes, i + 1,
                      [t \in (DOMAIN tensor_map) \cup Range(nodes[i].Ys) |->
                          IF t \in Range(nodes[i].Ys)
                          THEN output_tensors[CHOOSE k \in 1..Len(nodes[i].Ys) :
                                                 nodes[i].Ys[k] = t]
                          ELSE tensor_map[t]],
                      counter2,
                      Append(before, [layer |-> layer, Xs |-> input_tensors,
                                      Ys |-> output_tensors]))

(* Lines 633-648: the remapping pass over the recorded invocations. *)
RECURSIVE Remap(_, _, _, _, _)
Remap(executed_nodes, i, tensor_mapping, counter, new_executed_nodes) ==
    IF i > Len(executed_nodes)
    THEN [tensor_mapping |-> tensor_mapping, new_executed_nodes |-> new_executed_nodes]
    ELSE LET layer == executed_nodes[i].layer
             Xs == executed_nodes[i].Xs
             Ys == executed_nodes[i].Ys
             new_Xs == IF IsInputLayer(layer) THEN Xs
                       ELSE [k \in 1..Len(Xs) |-> tensor_mapping[Xs[k]]]
             new_Ys == IF IsInputLayer(layer) THEN Ys
                       ELSE [k \in 1..Len(Ys) |-> Canonical(counter + k)]
         IN  Remap(executed_nodes, i + 1,
                   [t \in (DOMAIN tensor_mapping) \cup Range(Ys) |->
                       IF t \in Range(Ys)
                       THEN new_Ys[CHOOSE k \in 1..Len(Ys) : Ys[k] = t]
                       ELSE tensor_mapping[t]],
                   IF IsInputLayer(layer) THEN counter ELSE counter + Len(Ys),
                   Append(new_executed_nodes, [layer |-> layer, Xs |-> new_Xs, Ys |-> new_Ys]))

(* Lines 569-656: the path taken when the model contains a container. *)
executed_nodes_nested(m) ==
    LET run == RunNodes(m.containers, m.nodes, 1, [t \in Range(m.inputs) |-> t], 0, <<>>)
        remapped == Remap(run.executed_nodes, 1, [t \in Range(m.inputs) |-> t], 0, <<>>)
    IN  [executed_nodes |-> remapped.new_executed_nodes,
         outputs |-> [k \in 1..Len(m.outputs) |->
                        remapped.tensor_mapping[run.tensor_map[m.outputs[k]]]]]

(* Lines 666-681: the pruning pass over executed_nodes and what           *)
(* trace_model_execution returns.                                          *)
prune_executed_nodes(layers, executed_nodes, outputs) ==
    LET keptIdx == PruneScan(executed_nodes, Len(executed_nodes), Range(outputs), <<>>)
    IN  [layers |-> layers,
         execution_list |-> [k \in 1..Len(keptIdx) |-> executed_nodes[keptIdx[k]]],
         kept |-> keptIdx,
         outputs |-> outputs]

(* Lines 546-681.  executed_nodes is the remapped list of the nested path  *)
(* or the node list of the model; the pruning pass follows.                *)
trace_model_execution(m) ==
    IF contains_container(m)
    THEN prune_executed_nodes(get_model_layers(m), executed_nodes_nested(m).executed_nodes,
                              executed_nodes_nested(m).outputs)
    ELSE prune_executed_nodes({m.nodes[i].layer : i \in 1..Len(m.nodes)}, m.nodes, m.outputs)

-----------------------------------------------------------------------------
(* get_model_execution_trace.                                              *)

(* The id assignment with the counter advanced on InputLayer records too. *)
RECURSIVE AssignNids_counting_inputs(_, _, _)
AssignNids_counting_inputs(trace, i, current_nid) ==
    IF i > Len(trace) THEN <<>>
    ELSE IF IsInputLayer(trace[i].layer)
         THEN <<None>> \o AssignNids_counting_inputs(trace, i + 1, current_nid + 1)
         ELSE <<current_nid>> \o AssignNids_counting_inputs(trace, i + 1, current_nid + 1)

(* Lines 723-730: node ids in forward order, None for InputLayer records.  *)
RECURSIVE AssignNids(_, _, _)
AssignNids(trace, i, current_nid) ==
    IF i > Len(trace) THEN <<>>
    ELSE IF IsInputLayer(trace[i].layer)
         THEN <<None>> \o AssignNids(trace, i + 1, current_nid)
         ELSE <<current_nid>> \o AssignNids(trace, i + 1, current_nid + 1)

(* Lines 740-745: register nid as a consumer of every X. *)
RECURSIVE AddInputs(_, _, _, _)
AddInputs(inputs_to_node, Xs, k, nid) ==
    IF k > Len(Xs) THEN inputs_to_node
    ELSE AddInputs(
            IF Xs[k] \in DOMAIN inputs_to_node
            THEN DictPut(inputs_to_node, Xs[k], Append(inputs_to_node[Xs[k]], nid))
            ELSE DictPut(inputs_to_node, Xs[k], <<nid>>),
            Xs, k + 1, nid)

(* Lines 748-752: register nid as the producer of every Y; the raise tests *)
(* inputs_to_node.                                                         *)
RECURSIVE AddOutputs(_, _, _, _, _)
AddOutputs(inputs_to_node, outputs_to_node, Ys, k, nid) ==
    IF k > Len(Ys) THEN [err |-> NoErr, outputs_to_node |-> outputs_to_node]
    ELSE IF Ys[k] \in DOMAIN inputs_to_node
         THEN [err |-> "Cannot be more than one creating node.",
               outputs_to_node |-> outputs_to_node]
         ELSE AddOutputs(inputs_to_node, DictPut(outputs_to_node, Ys[k], nid), Ys, k + 1, nid)

(* Lines 736-752: the loop over id_execution_trace. *)
RECURSIVE BuildLookups(_, _, _, _, _, _)
BuildLookups(trace, nids, i, inputs_to_node, outputs_to_node, keep_input_layers) ==
    IF i > Len(trace)
    THEN [err |-> NoErr, inputs_to_node |-> inputs_to_node,
          outputs_to_node |-> outputs_to_node]
    ELSE LET i2n == IF nids[i] # None
                    THEN AddInputs(inputs_to_node, trace[i].Xs, 1, nids[i])
                    ELSE inputs_to_node
             out == IF keep_input_layers \/ nids[i] # None
                    THEN AddOutputs(i2n, outputs_to_node, trace[i].Ys, 1, nids[i])
                    ELSE [err |-> NoErr, outputs_to_node |-> outputs_to_node]
         IN  IF out.err # NoErr
             THEN [err |-> out.err, inputs_to_node |-> i2n,
                   outputs_to_node |-> out.outputs_to_node]
             ELSE BuildLookups(trace, nids, i + 1, i2n, out.outputs_to_node,
                               keep_input_layers)

(* Lines 767-799: one entry of model_execution_trace.  A missing key of    *)
(* inputs_to_node at line 772 is a KeyError (EntryRaises).                 *)
TraceEntry(trace, nids, lk, i) ==
    LET Xs == trace[i].Xs
        Ys == trace[i].Ys
    IN  IF IsInputLayer(trace[i].layer)
        THEN [nid |-> nids[i], layer |-> trace[i].layer, Xs |-> Xs, Ys |-> Ys,
              Xs_nids |-> <<>>,
              Ys_nids |-> [k \in 1..Len(Ys) |->
                             IF Ys[k] \in DOMAIN lk.inputs_to_node
                             THEN lk.inputs_to_node[Ys[k]] ELSE <<>>]]
        ELSE [nid |-> nids[i], layer |-> trace[i].layer, Xs |-> Xs, Ys |-> Ys,
              Xs_nids |-> [k \in 1..Len(Xs) |->
                             IF Xs[k] \in DOMAIN lk.outputs_to_node
                             THEN lk.outputs_to_node[Xs[k]] ELSE None],
              Ys_nids |-> [k \in 1..Len(Ys) |->
                             IF Ys[k] \in DOMAIN lk.inputs_to_node
                             THEN lk.inputs_to_node[Ys[k]] ELSE <<None>>]]

EntryRaises(trace, lk, i) ==
    /\ IsInputLayer(trace[i].layer)
    /\ \E k \in 1..Len(trace[i].Ys) : trace[i].Ys[k] \notin DOMAIN lk.inputs_to_node

NoTrace == [err |-> NoErr, nids |-> <<>>, inputs_to_node |-> EmptyDict,
            outputs_to_node |-> EmptyDict, trace |-> <<>>]

get_model_execution_trace(m, keep_input_layers) ==
    LET trace == trace_model_execution(m).execution_list
        nids == AssignNids(trace, 1, 0)
        lk == BuildLookups(trace, nids, 1, EmptyDict, EmptyDict, keep_input_layers)
        entries == [i \in 1..Len(trace) |-> TraceEntry(trace, nids, lk, i)]
    IN  IF lk.err # NoErr
        THEN [NoTrace EXCEPT !.err = lk.err, !.nids = nids,
                             !.inputs_to_node = lk.inputs_to_node,
                             !.outputs_to_node = lk.outputs_to_node]
        ELSE IF \E i \in 1..Len(trace) : EntryRaises(trace, lk, i)
        THEN [NoTrace EXCEPT !.err = "KeyError", !.nids = nids,
                             !.inputs_to_node = lk.inputs_to_node,
                             !.outputs_to_node = lk.outputs_to_node]
        ELSE [err |-> NoErr, nids |-> nids,
              inputs_to_node |-> lk.inputs_to_node,
              outputs_to_node |-> lk.outputs_to_node,
              trace |-> IF keep_input_layers THEN entries
                        ELSE SelectSeq(entries, LAMBDA e : e.nid # None)]

-----------------------------------------------------------------------------
(* get_bottleneck_nodes.  open_connections is used as a set of tensors.    *)

(* Lines 896-906: tensor -> output tensors of the records consuming it. *)
RECURSIVE ForwardConnections(_, _, _)
ForwardConnections(list, i, fc) ==
    IF i > Len(list) THEN fc
    ELSE IF IsInputLayer(list[i].layer)
         THEN ForwardConnections(list, i + 1, fc)
         ELSE ForwardConnections(list, i + 1,
                [x \in (DOMAIN fc) \cup Range(list[i].Xs) |->
                    IF x \in Range(list[i].Xs)
                    THEN (IF x \in DOMAIN fc THEN fc[x] ELSE {}) \cup Range(list[i].Ys)
                    ELSE fc[x]])

(* Lines 913-931: the forward scan.  ret holds positions of the list. *)
RECURSIVE BottleneckScan(_, _, _, _, _, _)
BottleneckScan(list, outputs, fc, i, open_connections, ret) ==
    IF i > Len(list) THEN [err |-> NoErr, ret |-> ret]
    ELSE IF IsInputLayer(list[i].layer)
         THEN BottleneckScan(list, outputs, fc, i + 1, open_connections, ret)
         ELSE LET Ys == Range(list[i].Ys)
                  notOut == Ys \ Range(outputs)
              IN  IF ~(Ys \subseteq open_connections)
                     \/ Len(list[i].Ys) # Cardinality(Ys)
                  THEN [err |-> "AssertionError", ret |-> ret]
                  ELSE IF ~(notOut \subseteq DOMAIN fc)
                  THEN [err |-> "KeyError",
                        ret |-> IF open_connections \ Ys = {} THEN Append(ret, i) ELSE ret]
                  ELSE BottleneckScan(list, outputs, fc, i + 1,
                          (open_connections \ Ys) \cup UNION {fc[y] : y \in notOut},
                          IF open_connections \ Ys = {} THEN Append(ret, i) ELSE ret)

(* Lines 896-906 with the list objects told apart: forward_connections[x]  *)
(* is a list of its own (rec = 0, elements val) or the Ys list of record   *)
(* rec of the execution list, and += extends the list it refers to.  This  *)
(* version binds the Ys list itself at line 906, without list(Ys).         *)
RECURSIVE forward_connections_store_alias(_, _, _, _)
forward_connections_store_alias(list, i, k, fc) ==
    IF i > Len(list) THEN [list |-> list, fc |-> fc]
    ELSE IF IsInputLayer(list[i].layer) \/ k > Len(list[i].Xs)
    THEN forward_connections_store_alias(list, i + 1, 1, fc)
    ELSE IF list[i].Xs[k] \in DOMAIN fc
    THEN IF fc[list[i].Xs[k]].rec = 0
         THEN forward_connections_store_alias(list, i, k + 1,
                  [fc EXCEPT ![list[i].Xs[k]].val = @ \o list[i].Ys])
         ELSE forward_connections_store_alias(
                  [list EXCEPT ![fc[list[i].Xs[k]].rec].Ys = @ \o list[i].Ys], i, k + 1, fc)
    ELSE forward_connections_store_alias(list, i, k + 1,
             DictPut(fc, list[i].Xs[k], [rec |-> i, val |-> <<>>]))

(* Lines 896-906 with the list objects told apart: line 906 binds a copy,  *)
(* list(Ys), and line 904 extends the list that forward_connections[x]     *)
(* refers to.  Returns the execution list and forward_connections after    *)
(* the loop.                                                               *)
RECURSIVE forward_connections_store(_, _, _, _)
forward_connections_store(list, i, k, fc) ==
    IF i > Len(list) THEN [list |-> list, fc |-> fc]
    ELSE IF IsInputLayer(list[i].layer) \/ k > Len(list[i].Xs)
    THEN forward_connections_store(list, i + 1, 1, fc)
    ELSE IF list[i].Xs[k] \in DOMAIN fc
    THEN IF fc[list[i].Xs[k]].rec = 0
         THEN forward_connections_store(list, i, k + 1,
                  [fc EXCEPT ![list[i].Xs[k]].val = @ \o list[i].Ys])
         ELSE forward_connections_store(
                  [list EXCEPT ![fc[list[i].Xs[k]].rec].Ys = @ \o list[i].Ys], i, k + 1, fc)
    ELSE forward_connections_store(list, i, k + 1,
             DictPut(fc, list[i].Xs[k], [rec |-> 0, val |-> list[i].Ys]))

get_bottleneck_nodes(inputs, outputs, execution_list_) ==
    LET fc == ForwardConnections(execution_list_, 1, EmptyDict)
    IN  IF ~(Range(inputs) \subseteq DOMAIN fc)
        THEN [err |-> "KeyError", ret |-> <<>>]
        ELSE BottleneckScan(execution_list_, outputs, fc, 1,
                            UNION {fc[x] : x \in Range(inputs)}, <<>>)

(* The loop of lines 949-959 without the test of line 955. *)
RECURSIVE BottleneckTensorScan_repeats(_, _, _, _, _)
BottleneckTensorScan_repeats(list, nodes, k, j, ret) ==
    IF k > Len(nodes) THEN ret
    ELSE LET tensor_list == IF j = 0 THEN list[nodes[k]].Xs ELSE list[nodes[k]].Ys
             ret2 == IF Len(tensor_list) = 1
                     THEN Append(ret, tensor_list[1]) ELSE ret
         IN  IF j = 0 THEN BottleneckTensorScan_repeats(list, nodes, k, 1, ret2)
             ELSE BottleneckTensorScan_repeats(list, nodes, k + 1, 0, ret2)

(* Lines 949-959: the loop over the bottleneck nodes and, per node, over   *)
(* (Xs, Ys); j = 0 is the input list, j = 1 the output list.               *)
RECURSIVE BottleneckTensorScan(_, _, _, _, _)
BottleneckTensorScan(list, nodes, k, j, ret) ==
    IF k > Len(nodes) THEN ret
    ELSE LET tensor_list == IF j = 0 THEN list[nodes[k]].Xs ELSE list[nodes[k]].Ys
             ret2 == IF Len(tensor_list) = 1 /\ tensor_list[1] \notin Range(ret)
                     THEN Append(ret, tensor_list[1]) ELSE ret
         IN  IF j = 0 THEN BottleneckTensorScan(list, nodes, k, 1, ret2)
             ELSE BottleneckTensorScan(list, nodes, k + 1, 0, ret2)

(* Lines 936-959.  An exception of get_bottleneck_nodes goes through.      *)
get_bottleneck_tensors(inputs, outputs, execution_list_) ==
    LET nodes == get_bottleneck_nodes(inputs, outputs, execution_list_)
    IN  IF nodes.err # NoErr THEN [err |-> nodes.err, ret |-> <<>>]
        ELSE [err |-> NoErr, ret |-> BottleneckTensorScan(execution_list_, nodes.ret, 1, 0, <<>>)]

-----------------------------------------------------------------------------
(* reverse_model: the ReverseTensorDict bookkeeping.  A reversed value is  *)
(* a positive integer and keras.layers.Add is the sum.                     *)

(* The arguments clip_all_reversed_tensors and project_bottleneck_tensors  *)
(* are False (set is FALSE) or a range (min, max).                         *)
NoRange == [set |-> FALSE, range |-> <<0, 0>>]

ClipRange == [set |-> TRUE, range |-> <<3, 8>>]

ProjectRange == [set |-> TRUE, range |-> <<0, 9>>]

(* ilayers.Clip(min, max): the value clipped to the range. *)
Clip(range, x) == IF x < range[1] THEN range[1] ELSE IF x > range[2] THEN range[2] ELSE x

(* ilayers.Project(range): the value is divided by its absolute maximum    *)
(* and mapped to the range; a reversed value is one positive number, so    *)
(* the quotient is 1 and the result is the upper end of the range.         *)
Project(range, x) == range[2]

(* add_reversed_tensor without the stop-set test of lines 1065-1066. *)
add_reversed_tensor_nostop(rt, stop_mapping_at_tensors, nid, i, X, reversed_X) ==
    IF X \notin DOMAIN rt
    THEN [rt |-> DictPut(rt, X, [id |-> <<nid, i>>, tensor |-> reversed_X,
                                 tensors |-> <<>>, final_tensor |-> None]),
          err |-> NoErr]
    ELSE IF rt[X].tensor # None
    THEN IF rt[X].tensors # <<>>
         THEN [rt |-> rt, err |-> "Wrong order, tensors already aggregated!"]
         ELSE [rt |-> [rt EXCEPT ![X].tensors = <<rt[X].tensor, reversed_X>>,
                                 ![X].tensor = None],
               err |-> NoErr]
    ELSE [rt |-> rt, err |-> "Error during reverse tensor aggeregation."]

(* add_reversed_tensor without line 1081: the pending value stays set when *)
(* the list is built.                                                      *)
add_reversed_tensor_keeps_tensor(rt, stop_mapping_at_tensors, nid, i, X, reversed_X) ==
    IF X \in stop_mapping_at_tensors
    THEN [rt |-> rt, err |-> NoErr]
    ELSE IF X \notin DOMAIN rt
    THEN [rt |-> DictPut(rt, X, [id |-> <<nid, i>>, tensor |-> reversed_X,
                                 tensors |-> <<>>, final_tensor |-> None]),
          err |-> NoErr]
    ELSE IF rt[X].tensor # None
    THEN IF rt[X].tensors # <<>>
         THEN [rt |-> rt, err |-> "Wrong order, tensors already aggregated!"]
         ELSE [rt |-> [rt EXCEPT ![X].tensors = <<rt[X].tensor, reversed_X>>],
               err |-> NoErr]
    ELSE [rt |-> rt, err |-> "Error during reverse tensor aggeregation."]

(* Lines 1063-1084.  Returns the dictionary and the exception raised.      *)
add_reversed_tensor(rt, stop_mapping_at_tensors, nid, i, X, reversed_X) ==
    IF X \in stop_mapping_at_tensors
    THEN [rt |-> rt, err |-> NoErr]
    ELSE IF X \notin DOMAIN rt
    THEN [rt |-> DictPut(rt, X, [id |-> <<nid, i>>, tensor |-> reversed_X,
                                 tensors |-> <<>>, final_tensor |-> None]),
          err |-> NoErr]
    ELSE IF rt[X].tensor # None
    THEN IF rt[X].tensors # <<>>
         THEN [rt |-> rt, err |-> "Wrong order, tensors already aggregated!"]
         ELSE [rt |-> [rt EXCEPT ![X].tensors = <<rt[X].tensor, reversed_X>>,
                                 ![X].tensor = None],
               err |-> NoErr]
    ELSE [rt |-> rt, err |-> "Error during reverse tensor aggeregation."]

(* Lines 1086-1088: the loop over zip(tensors_list, reversed_tensors_list); *)
(* i is the zero-based index of enumerate.                                  *)
RECURSIVE add_reversed_tensors(_, _, _, _, _, _)
add_reversed_tensors(rt, stop_mapping_at_tensors, nid, tensors_list, reversed_list, k) ==
    IF k > Len(tensors_list) \/ k > Len(reversed_list)
    THEN [rt |-> rt, err |-> NoErr]
    ELSE LET r == add_reversed_tensor(rt, stop_mapping_at_tensors, nid, k - 1,
                                      tensors_list[k], reversed_list[k])
         IN  IF r.err # NoErr THEN r
             ELSE add_reversed_tensors(r.rt, stop_mapping_at_tensors, nid, tensors_list,
                                       reversed_list, k + 1)

(* get_reversed_tensor taking the last aggregated value instead of the sum. *)
get_reversed_tensor_last(rt, tensor) ==
    IF tensor \notin DOMAIN rt
    THEN [rt |-> rt, value |-> None]
    ELSE IF rt[tensor].final_tensor = None
    THEN LET final_tensor == IF rt[tensor].tensor = None
                             THEN rt[tensor].tensors[Len(rt[tensor].tensors)]
                             ELSE rt[tensor].tensor
         IN  [rt |-> [rt EXCEPT ![tensor].final_tensor = final_tensor],
              value |-> final_tensor]
    ELSE [rt |-> rt, value |-> rt[tensor].final_tensor]

(* get_reversed_tensor computing the value anew at every call. *)
get_reversed_tensor_recompute(rt, tensor) ==
    IF tensor \notin DOMAIN rt
    THEN [rt |-> rt, value |-> None]
    ELSE LET final_tensor == IF rt[tensor].tensor = None
                             THEN SumSeq(rt[tensor].tensors)
                             ELSE rt[tensor].tensor
         IN  [rt |-> [rt EXCEPT ![tensor].final_tensor = final_tensor],
              value |-> final_tensor]

(* get_reversed_tensor clipping before it projects. *)
get_reversed_tensor_clip_first(rt, tensor) ==
    IF tensor \notin DOMAIN rt
    THEN [rt |-> rt, value |-> None]
    ELSE IF rt[tensor].final_tensor = None
    THEN LET base == IF rt[tensor].tensor = None
                     THEN SumSeq(rt[tensor].tensors)
                     ELSE rt[tensor].tensor
             clipped == IF config.clip_all_reversed_tensors.set
                        THEN Clip(config.clip_all_reversed_tensors.range, base)
                        ELSE base
             final_tensor == IF config.project_bottleneck_tensors.set
                                /\ tensor \in bottleneck_tensors
                             THEN Project(config.project_bottleneck_tensors.range, clipped)
                             ELSE clipped
         IN  [rt |-> [rt EXCEPT ![tensor].final_tensor = final_tensor],
              value |-> final_tensor]
    ELSE [rt |-> rt, value |-> rt[tensor].final_tensor]

(* Lines 1090-1111.  project_bottleneck_tensors, clip_all_reversed_tensors *)
(* and bottleneck_tensors are variables of the enclosing reverse_model.  A *)
(* missing key is a KeyError, signalled by the value None.                 *)
get_reversed_tensor(rt, tensor) ==
    IF tensor \notin DOMAIN rt
    THEN [rt |-> rt, value |-> None]
    ELSE IF rt[tensor].final_tensor = None
    THEN LET base == IF rt[tensor].tensor = None
                     THEN SumSeq(rt[tensor].tensors)
                     ELSE rt[tensor].tensor
             projected == IF config.project_bottleneck_tensors.set
                             /\ tensor \in bottleneck_tensors
                          THEN Project(config.project_bottleneck_tensors.range, base)
                          ELSE base
             final_tensor == IF config.clip_all_reversed_tensors.set
                             THEN Clip(config.clip_all_reversed_tensors.range, projected)
                             ELSE projected
         IN  [rt |-> [rt EXCEPT ![tensor].final_tensor = final_tensor],
              value |-> final_tensor]
    ELSE [rt |-> rt, value |-> rt[tensor].final_tensor]

(* [get_reversed_tensor(t) for t in tensors], lines 1213 and 1235-1239. *)
RECURSIVE get_reversed_tensors(_, _, _)
get_reversed_tensors(rt, tensors, k) ==
    IF k > Len(tensors) THEN [rt |-> rt, values |-> <<>>]
    ELSE LET r == get_reversed_tensor(rt, tensors[k])
             rest == get_reversed_tensors(r.rt, tensors, k + 1)
         IN  [rt |-> rest.rt, values |-> <<r.value>> \o rest.values]

(* head_mapping.  The value of an output tensor is written as the tensor's *)
(* number.  "default" is the identity of lines 1030-1033 (head_mapping is   *)
(* None); "double" is a head mapping supplied by the caller.                *)
HeadMappings == {"default", "double"}

(* The head mapping that ignores the one configured. *)
head_mapping_default_only(head, X) == X

head_mapping(head, X) == IF head = "default" THEN X ELSE 2 * X

(* The reverse rules are supplied by the caller.  "identity" hands the sum *)
(* of the reversed outputs to every input; "indexed" adds the input's      *)
(* position, so that the inputs of one record get different values.        *)
Rules == {"identity", "indexed"}

(* Python's None where a rule is expected. *)
NoRule == "None"

reverse_mapping(rule, Xs, Ys, reversed_Ys) ==
    [k \in 1..Len(Xs) |->
        IF rule = "identity" THEN SumSeq(reversed_Ys) ELSE SumSeq(reversed_Ys) + k]

(* The argument reverse_mappings is [callable, by_type, by_layer]: either  *)
(* a dictionary, whose keys are layer types (by_type) or layer instances   *)
(* (by_layer), or a callable, written as the table by_layer of the rules   *)
(* it returns (None for a layer outside the table).  Lines 1035-1043 look  *)
(* a dictionary up by type(layer), which is the layer's kind.              *)
reverse_mappings(cfg, layer) ==
    IF cfg.reverse_mappings.callable
    THEN IF layer \in DOMAIN cfg.reverse_mappings.by_layer
         THEN cfg.reverse_mappings.by_layer[layer] ELSE NoRule
    ELSE IF layer.kind \in DOMAIN cfg.reverse_mappings.by_type
         THEN cfg.reverse_mappings.by_type[layer.kind] ELSE NoRule

(* Rule resolution that falls back on the identity rule when there is no   *)
(* default rule.                                                           *)
InitializeReverseMapping_fallback(cfg, layer) ==
    LET meta_reverse_mapping == reverse_mappings(cfg, layer)
    IN  IF meta_reverse_mapping # NoRule THEN meta_reverse_mapping
        ELSE IF cfg.default_reverse_mapping # NoRule THEN cfg.default_reverse_mapping
        ELSE "identity"

(* The three forms of a mapping (lines 1002-1006): a function of form (A), *)
(* one of Rules; a function of form (B), which returns the rule "indexed"; *)
(* a ReverseMappingBase subclass, whose apply is the rule "identity".      *)
RuleFactories == {"make_indexed"}

RuleClasses == {"IdentityMapping"}

(* Lines 1137-1183: the rule stored for one layer. *)
InitializeReverseMapping(cfg, layer) ==
    LET meta_reverse_mapping == reverse_mappings(cfg, layer)
    IN  IF meta_reverse_mapping = NoRule THEN cfg.default_reverse_mapping
        ELSE IF meta_reverse_mapping \in RuleClasses THEN "identity"
        ELSE IF meta_reverse_mapping \in RuleFactories THEN "indexed"
        ELSE meta_reverse_mapping

(* The loop run once for every record of the layer. *)
RECURSIVE initialize_reverse_mappings_per_record(_, _, _)
initialize_reverse_mappings_per_record(cfg, layers, acc) ==
    IF layers = {} THEN acc
    ELSE LET layer == CHOOSE l \in layers : TRUE
             records == {p \in 1..Len(model.nodes) : model.nodes[p].layer = layer}
         IN  initialize_reverse_mappings_per_record(cfg, layers \ {layer},
                [mappings |-> DictPut(acc.mappings, layer,
                                      InitializeReverseMapping(cfg, layer)),
                 made |-> IF reverse_mappings(cfg, layer) \in RuleClasses \cup RuleFactories
                          THEN acc.made \o [i \in 1..Cardinality(records) |-> layer]
                          ELSE acc.made])

(* Lines 1131-1185: the loop over layers, a list without repeats (line     *)
(* 393).  made lists the layers whose mapping class (line 1144) or mapping *)
(* factory (line 1174) was called, one entry per call.                     *)
RECURSIVE initialize_reverse_mappings(_, _, _)
initialize_reverse_mappings(cfg, layers, acc) ==
    IF layers = {} THEN acc
    ELSE LET layer == CHOOSE l \in layers : TRUE
         IN  initialize_reverse_mappings(cfg, layers \ {layer},
                [mappings |-> DictPut(acc.mappings, layer,
                                      InitializeReverseMapping(cfg, layer)),
                 made |-> IF reverse_mappings(cfg, layer) \in RuleClasses \cup RuleFactories
                          THEN Append(acc.made, layer)
                          ELSE acc.made])

(* A callable that returns the rule for every layer. *)
RuleForAll(rule) ==
    [callable |-> TRUE, by_type |-> EmptyDict,
     by_layer |-> [l \in {Layer(n) : n \in 1..MaxRecs} |-> rule]]

DefaultConfig ==
    [reverse_mappings |-> RuleForAll("identity"), default_reverse_mapping |-> NoRule,
     head_mapping |-> "default", keep_input_layers |-> FALSE,
     clip_all_reversed_tensors |-> NoRange, project_bottleneck_tensors |-> NoRange]

(* The arguments of reverse_model: one rule for all layers, a head mapping. *)
Configs ==
    {[DefaultConfig EXCEPT !.reverse_mappings = RuleForAll(rule), !.head_mapping = head] :
        rule \in Rules, head \in HeadMappings}

(* The values handed to add_reversed_tensor, per tensor (history). *)
RECURSIVE Handed(_, _, _, _)
Handed(c, tensors_list, values, k) ==
    IF k > Len(tensors_list) THEN c
    ELSE Handed(DictPut(c, tensors_list[k],
                        (IF tensors_list[k] \in DOMAIN c THEN c[tensors_list[k]] ELSE <<>>)
                        \o <<values[k]>>),
                tensors_list, values, k + 1)

-----------------------------------------------------------------------------
(* The tracing functions applied to a model: trace_model_execution, then   *)
(* get_model_execution_trace and get_bottleneck_nodes on the same model.   *)

NoBottleneck == [err |-> NoErr, ret |-> <<>>]

NoOp == [op |-> "none", tensor |-> 0, value |-> 0, raised |-> FALSE]

(* The local state of a reverse_model call that has not begun. *)
NoCall ==
    [pc |-> "none", reversed_tensors |-> EmptyDict, pos |-> 0, calls |-> <<>>,
     contribs |-> EmptyDict, result |-> <<>>, err |-> NoErr,
     initialized_reverse_mappings |-> EmptyDict, bottleneck_tensors |-> {},
     factory_calls |-> <<>>]

(* Before any interception every layer has its own call method. *)
AllOriginal(m) == [l \in get_model_layers(m) |-> "original"]

InitCommon ==
    /\ pc = "start"
    /\ execution_list = <<>>
    /\ kept = <<>>
    /\ id_trace = [NoTrace EXCEPT !.err = "not run"]
    /\ bottleneck = [NoBottleneck EXCEPT !.err = "not run"]
    /\ bottleneck_tensor_list = [NoBottleneck EXCEPT !.err = "not run"]
    /\ reversed_tensors = EmptyDict
    /\ pos = 0
    /\ calls = <<>>
    /\ contribs = EmptyDict
    /\ result = <<>>
    /\ err = NoErr
    /\ last_op = NoOp
    /\ initialized_reverse_mappings = EmptyDict
    /\ finished = <<>>
    /\ bottleneck_tensors = {}
    /\ factory_calls = <<>>
    /\ call = AllOriginal(model)
    /\ monkey_patches = EmptyDict
    /\ recorded_nodes = <<>>
    /\ remap_pos = 0
    /\ suspended = NoCall

InitTrace ==
    /\ IsModel(model, TRUE)
    /\ stop = {}
    /\ config = DefaultConfig
    /\ InitCommon

TraceModelExecution ==
    /\ pc = "start"
    /\ execution_list' = trace_model_execution(model).execution_list
    /\ kept' = trace_model_execution(model).kept
    /\ pc' = "traced"
    /\ UNCHANGED <<interceptVars, suspended, model, id_trace, bottleneck, bottleneck_tensor_list, reverseVars,
                   last_op>>

GetModelExecutionTrace ==
    /\ pc = "traced"
    /\ \E keep_input_layers \in BOOLEAN :
          /\ id_trace' = get_model_execution_trace(model, keep_input_layers)
          /\ config' = [config EXCEPT !.keep_input_layers = keep_input_layers]
    /\ pc' = "identified"
    /\ UNCHANGED <<interceptVars, suspended, model, execution_list, kept, bottleneck, bottleneck_tensor_list, stop,
                   reversed_tensors, pos,
                   calls, contribs, result, err, last_op, initialized_reverse_mappings,
                   finished, bottleneck_tensors,
                   factory_calls>>

GetBottleneckNodes ==
    /\ pc = "identified"
    /\ bottleneck' = get_bottleneck_nodes(model.inputs, model.outputs, execution_list)
    /\ pc' = "analysed"
    /\ UNCHANGED <<interceptVars, suspended, model, execution_list, kept, id_trace, bottleneck_tensor_list,
                   reverseVars, last_op>>

NextTrace == TraceModelExecution \/ GetModelExecutionTrace \/ GetBottleneckNodes

SpecTrace == InitTrace /\ [][NextTrace]_vars

(* get_bottleneck_tensors on the traced list of a model. *)
GetBottleneckTensors ==
    /\ pc = "traced"
    /\ bottleneck_tensor_list'
          = get_bottleneck_tensors(model.inputs, model.outputs, execution_list)
    /\ pc' = "tensors"
    /\ UNCHANGED <<interceptVars, suspended, model, execution_list, kept, id_trace, bottleneck, reverseVars,
                   last_op>>

NextBottleneck == TraceModelExecution \/ GetBottleneckTensors

SpecBottleneck == InitTrace /\ [][NextBottleneck]_vars

-----------------------------------------------------------------------------
(* reverse_model on a model: the set-up and seeding, the reverse walk one  *)
(* record at a time, and the return.                                       *)

MaxStop == 1

StopSets == {S \in SUBSET Tensors : Cardinality(S) <= MaxStop}

Init ==
    /\ IsModel(model, FALSE)
    /\ stop \in StopSets
    /\ config \in Configs
    /\ InitCommon

(* A call that goes on with the dictionary the call before it has left. *)
ReversedTensorsLeftOver == reversed_tensors

(* Lines 1054-1055: every call starts with reversed_tensors = {}. *)
ReversedTensorsAtCall == EmptyDict

(* Lines 1027-1193: defaults, the fresh reversed_tensors, the trace, the   *)
(* rule of every layer, the bottleneck tensors when projection is asked    *)
(* for (an exception of get_bottleneck_tensors ends the call), and the     *)
(* seeding of the outputs.                                                 *)
ReverseModelStart ==
    /\ pc = "start"
    /\ LET trace == trace_model_execution(model)
           heads == [k \in 1..Len(trace.outputs) |->
                       head_mapping(config.head_mapping, trace.outputs[k])]
           seeded == add_reversed_tensors(ReversedTensorsAtCall, stop, -1, trace.outputs,
                                          heads, 1)
           initialized == initialize_reverse_mappings(
                              config, trace.layers, [mappings |-> EmptyDict, made |-> <<>>])
           found == IF config.project_bottleneck_tensors.set
                    THEN get_bottleneck_tensors(model.inputs, trace.outputs,
                                                trace.execution_list)
                    ELSE [err |-> NoErr, ret |-> <<>>]
       IN  /\ execution_list' = trace.execution_list
           /\ kept' = trace.kept
           /\ initialized_reverse_mappings' = initialized.mappings
           /\ factory_calls' = initialized.made
           /\ bottleneck_tensors' = Range(found.ret)
           /\ IF found.err # NoErr
              THEN /\ reversed_tensors' = ReversedTensorsAtCall
                   /\ contribs' = EmptyDict
                   /\ err' = found.err
                   /\ pc' = "failed"
              ELSE /\ reversed_tensors' = seeded.rt
                   /\ contribs' = Handed(EmptyDict, trace.outputs, heads, 1)
                   /\ err' = seeded.err
                   /\ pc' = IF seeded.err = NoErr THEN "walk" ELSE "failed"
    /\ pos' = 0
    /\ calls' = <<>>
    /\ result' = <<>>
    /\ UNCHANGED <<interceptVars, suspended, model, id_trace, bottleneck, bottleneck_tensor_list, stop, config,
                   last_op, finished>>

len_execution_list_wo_inputs_layers ==
    Len(execution_list)
    - Cardinality({i \in 1..Len(execution_list) : IsInputLayer(execution_list[i].layer)})

(* The test of line 1206 passing as soon as one output has an entry. *)
all_reversed_any(rt, Ys) == \E k \in 1..Len(Ys) : Ys[k] \in DOMAIN rt

(* Line 1206: all([ys in reversed_tensors for ys in Ys]). *)
all_reversed(rt, Ys) == \A k \in 1..Len(Ys) : Ys[k] \in DOMAIN rt

(* The list walked in the order in which it was recorded. *)
reverse_execution_list_forward == execution_list

(* Line 1127: reversed(execution_list). *)
reverse_execution_list ==
    [k \in 1..Len(execution_list) |-> execution_list[Len(execution_list) - k + 1]]

(* Lines 1196-1232: one iteration of the loop over the reversed list. *)
ReverseStep ==
    /\ pc = "walk"
    /\ pos < Len(execution_list)
    /\ LET idx == Len(execution_list) - pos
           rec == reverse_execution_list[pos + 1]
           nid == len_execution_list_wo_inputs_layers - pos - 1
       IN  IF IsInputLayer(rec.layer)
           THEN /\ pc' = "walk"
                /\ UNCHANGED <<reversed_tensors, calls, contribs, err>>
           ELSE IF is_network(rec.layer)
           THEN /\ err' = "This is not supposed to happen!"
                /\ pc' = "failed"
                /\ UNCHANGED <<reversed_tensors, calls, contribs>>
           ELSE IF ~all_reversed(reversed_tensors, rec.Ys)
           THEN /\ pc' = "walk"
                /\ UNCHANGED <<reversed_tensors, calls, contribs, err>>
           ELSE LET got == get_reversed_tensors(reversed_tensors, rec.Ys, 1)
                    rule == initialized_reverse_mappings[rec.layer]
                    reversed_Xs == reverse_mapping(rule, rec.Xs, rec.Ys, got.values)
                    added == add_reversed_tensors(got.rt, stop, nid, rec.Xs, reversed_Xs, 1)
                IN  IF rule = NoRule
                    THEN /\ reversed_tensors' = got.rt
                         /\ err' = "TypeError"
                         /\ pc' = "failed"
                         /\ UNCHANGED <<calls, contribs>>
                    ELSE /\ calls' = Append(calls, [nid |-> nid, idx |-> idx,
                                                    reversed_Ys |-> got.values,
                                                    reversed_Xs |-> reversed_Xs])
                         /\ reversed_tensors' = added.rt
                         /\ contribs' = Handed(contribs, rec.Xs, reversed_Xs, 1)
                         /\ err' = added.err
                         /\ pc' = IF added.err = NoErr THEN "walk" ELSE "failed"
    /\ pos' = pos + 1
    /\ UNCHANGED <<interceptVars, suspended, model, traceVars, stop, config, result, last_op,
                   initialized_reverse_mappings, finished, bottleneck_tensors,
                   factory_calls>>

(* Lines 1234-1243: the reversed tensors of the model inputs outside the   *)
(* stop-set.  result pairs each value with the input tensor it is for.     *)
ReverseModelReturn ==
    /\ pc = "walk"
    /\ pos = Len(execution_list)
    /\ LET wanted == SelectSeq(model.inputs, LAMBDA t : t \notin stop)
           got == get_reversed_tensors(reversed_tensors, wanted, 1)
       IN  IF \E k \in 1..Len(wanted) : wanted[k] \notin DOMAIN reversed_tensors
           THEN /\ err' = "KeyError"
                /\ pc' = "failed"
                /\ UNCHANGED <<reversed_tensors, result>>
           ELSE /\ reversed_tensors' = got.rt
                /\ result' = [k \in 1..Len(wanted) |->
                                [tensor |-> wanted[k], value |-> got.values[k]]]
                /\ err' = NoErr
                /\ pc' = "done"
    /\ UNCHANGED <<interceptVars, suspended, model, traceVars, stop, config, pos, calls, contribs, last_op,
                   initialized_reverse_mappings, finished, bottleneck_tensors,
                   factory_calls>>

Next == ReverseModelStart \/ ReverseStep \/ ReverseModelReturn

Spec == Init /\ [][Next]_vars

-----------------------------------------------------------------------------
(* reverse_model called MaxRuns times in a row with the same arguments.    *)

MaxRuns == 2

(* The call has returned or raised: its outcome is noted and the caller    *)
(* calls reverse_model again.  Nothing else changes between the calls.     *)
ReverseModelAgain ==
    /\ pc \in {"done", "failed"}
    /\ Len(finished) < MaxRuns - 1
    /\ finished' = Append(finished, [result |-> result, err |-> err,
                                      reversed_tensors |-> reversed_tensors])
    /\ pc' = "start"
    /\ UNCHANGED <<interceptVars, suspended, model, traceVars, stop, config, reversed_tensors, pos, calls, contribs,
                   result, err, last_op, initialized_reverse_mappings, bottleneck_tensors,
                   factory_calls>>

NextTwice == Next \/ ReverseModelAgain

SpecTwice == Init /\ [][NextTwice]_vars

-----------------------------------------------------------------------------
(* Two reverse_model calls on one precomputed trace with their steps       *)
(* interleaved.  A first call traces the model and runs alone; its         *)
(* execution list is then given to two calls (argument execution_trace),   *)
(* of which one is active and the other waits with its local state in      *)
(* suspended.  get_bottleneck_tensors is called on the same list in        *)
(* between.  The models have at most MaxInterleavedRecs records that are   *)
(* not InputLayer records.                                                 *)

MaxInterleavedRecs == 2

InterleavedConfigs ==
    {[DefaultConfig EXCEPT !.reverse_mappings = RuleForAll("indexed"),
                           !.project_bottleneck_tensors = p] :
        p \in {NoRange, ProjectRange}}

InitInterleaved ==
    /\ IsModel(model, FALSE)
    /\ NumLayers(model.nodes) <= MaxInterleavedRecs
    /\ stop = {}
    /\ config \in InterleavedConfigs
    /\ InitCommon

(* The local variables of the active reverse_model call. *)
ActiveCall ==
    [pc |-> pc, reversed_tensors |-> reversed_tensors, pos |-> pos, calls |-> calls,
     contribs |-> contribs, result |-> result, err |-> err,
     initialized_reverse_mappings |-> initialized_reverse_mappings,
     bottleneck_tensors |-> bottleneck_tensors, factory_calls |-> factory_calls]

(* The first call has returned or raised: its outcome is noted, and two    *)
(* calls with the same arguments and its execution list are about to       *)
(* begin.                                                                  *)
ShareTrace ==
    /\ pc \in {"done", "failed"}
    /\ finished = <<>>
    /\ finished' = <<[result |-> result, err |-> err,
                      reversed_tensors |-> reversed_tensors]>>
    /\ pc' = "given"
    /\ reversed_tensors' = EmptyDict
    /\ pos' = 0
    /\ calls' = <<>>
    /\ contribs' = EmptyDict
    /\ result' = <<>>
    /\ err' = NoErr
    /\ initialized_reverse_mappings' = EmptyDict
    /\ bottleneck_tensors' = {}
    /\ factory_calls' = <<>>
    /\ suspended' = [NoCall EXCEPT !.pc = "given"]
    /\ UNCHANGED <<interceptVars, model, traceVars, stop, config, last_op>>

(* Lines 1027-1193 of a call that is given the trace (line 1117): as       *)
(* ReverseModelStart, on the execution list of the trace.  The call of     *)
(* get_bottleneck_tensors (lines 1187-1190) works on that list.            *)
ReverseModelOnTrace ==
    /\ pc = "given"
    /\ LET trace == trace_model_execution(model)
           heads == [k \in 1..Len(trace.outputs) |->
                       head_mapping(config.head_mapping, trace.outputs[k])]
           seeded == add_reversed_tensors(ReversedTensorsAtCall, stop, -1, trace.outputs,
                                          heads, 1)
           initialized == initialize_reverse_mappings(
                              config, trace.layers, [mappings |-> EmptyDict, made |-> <<>>])
           found == IF config.project_bottleneck_tensors.set
                    THEN get_bottleneck_tensors(model.inputs, trace.outputs, execution_list)
                    ELSE [err |-> NoErr, ret |-> <<>>]
       IN  /\ execution_list' =
                 IF config.project_bottleneck_tensors.set
                 THEN forward_connections_store(execution_list, 1, 1, EmptyDict).list
                 ELSE execution_list
           /\ initialized_reverse_mappings' = initialized.mappings
           /\ factory_calls' = initialized.made
           /\ bottleneck_tensors' = Range(found.ret)
           /\ IF found.err # NoErr
              THEN /\ reversed_tensors' = ReversedTensorsAtCall
                   /\ contribs' = EmptyDict
                   /\ err' = found.err
                   /\ pc' = "failed"
              ELSE /\ reversed_tensors' = seeded.rt
                   /\ contribs' = Handed(EmptyDict, trace.outputs, heads, 1)
                   /\ err' = seeded.err
                   /\ pc' = IF seeded.err = NoErr THEN "walk" ELSE "failed"
    /\ pos' = 0
    /\ calls' = <<>>
    /\ result' = <<>>
    /\ UNCHANGED <<interceptVars, suspended, model, kept, id_trace, bottleneck,
                   bottleneck_tensor_list, stop, config, last_op, finished>>

(* The active call waits and the waiting call goes on: each call has its   *)
(* own local variables; the execution list is the same object for both.    *)
SwitchCalls ==
    /\ finished # <<>>
    /\ suspended # ActiveCall
    /\ suspended' = ActiveCall
    /\ pc' = suspended.pc
    /\ reversed_tensors' = suspended.reversed_tensors
    /\ pos' = suspended.pos
    /\ calls' = suspended.calls
    /\ contribs' = suspended.contribs
    /\ result' = suspended.result
    /\ err' = suspended.err
    /\ initialized_reverse_mappings' = suspended.initialized_reverse_mappings
    /\ bottleneck_tensors' = suspended.bottleneck_tensors
    /\ factory_calls' = suspended.factory_calls
    /\ UNCHANGED <<interceptVars, model, traceVars, stop, config, last_op, finished>>

(* The caller calls get_bottleneck_tensors, and with it get_bottleneck_nodes, *)
(* on the execution list while the two calls are under way.                *)
GetBottleneckTensorsShared ==
    /\ finished # <<>>
    /\ bottleneck_tensor_list.err = "not run"
    /\ bottleneck' = get_bottleneck_nodes(model.inputs, model.outputs, execution_list)
    /\ bottleneck_tensor_list'
          = get_bottleneck_tensors(model.inputs, model.outputs, execution_list)
    /\ execution_list' = forward_connections_store(execution_list, 1, 1, EmptyDict).list
    /\ UNCHANGED <<interceptVars, suspended, model, pc, kept, id_trace, reverseVars,
                   last_op>>

NextInterleaved ==
    \/ ReverseModelStart
    \/ ReverseStep
    \/ ReverseModelReturn
    \/ ShareTrace
    \/ ReverseModelOnTrace
    \/ SwitchCalls
    \/ GetBottleneckTensorsShared

SpecInterleaved == InitInterleaved /\ [][NextInterleaved]_vars

-----------------------------------------------------------------------------
(* reverse_model on a model with a nested sub-graph: one record of the     *)
(* model, with one input and one output tensor, is the application of a    *)
(* container whose graph is an InputLayer followed by a chain of at most   *)
(* MaxInner layers.  The model has at most MaxNestedRecs records that are  *)
(* not InputLayer records.                                                 *)

MaxNestedRecs == 2
MaxInner == 2

(* The graph of container c: the layers 10c+1, 10c+2, ... in a chain. *)
InnerModel(c, len) ==
    [inputs |-> <<1>>, outputs |-> <<1 + len>>,
     nodes |-> <<[layer |-> InputLayer(10 * c), Xs |-> <<1>>, Ys |-> <<1>>]>>
               \o [i \in 1..len |-> [layer |-> Layer(10 * c + i), Xs |-> <<i>>,
                                      Ys |-> <<i + 1>>]]]

IsNestedModel(m) ==
    \E n \in 1..MaxInputs :
       LET inputs == [i \in 1..n |-> i] IN
       \E l1 \in Extend(inputs, <<>>, FALSE) :
       \E l2 \in Extend(inputs, l1, FALSE) :
       \E l3 \in Extend(inputs, l2, FALSE) :
       \E l4 \in Extend(inputs, l3, FALSE) :
       \E o \in OutputLists(l4) :
       \E p \in 1..Len(l4) : \E len \in 1..MaxInner :
          /\ HasInputRecord(l4) = Range(inputs)
          /\ NumLayers(l4) <= MaxNestedRecs
          /\ ~IsInputLayer(l4[p].layer)
          /\ Len(l4[p].Xs) = 1
          /\ Len(l4[p].Ys) = 1
          /\ m = [inputs |-> inputs, outputs |-> o,
                  nodes |-> [l4 EXCEPT ![p].layer = Network(l4[p].layer.name)],
                  containers |-> [c \in {l4[p].layer.name} |->
                                    InnerModel(l4[p].layer.name, len)]]

(* Every layer has a rule: the default rule. *)
NestedConfigs ==
    {[DefaultConfig EXCEPT !.reverse_mappings.callable = FALSE,
                           !.reverse_mappings.by_layer = EmptyDict,
                           !.default_reverse_mapping = rule,
                           !.head_mapping = head] :
        rule \in Rules, head \in HeadMappings}

InitNested ==
    /\ IsNestedModel(model)
    /\ stop = {}
    /\ config \in NestedConfigs
    /\ InitCommon

SpecNested == InitNested /\ [][Next]_vars

-----------------------------------------------------------------------------
(* trace_model_execution on a model with a nested sub-graph, step by step: *)
(* the patches, the re-execution, the finally clause, the remapping pass   *)
(* record by record, and the return.                                       *)

(* Lines 623-624 without the finally: skipped when the try block raised. *)
revert_monkey_patches_no_finally(call_, monkey_patches_, raised) ==
    IF raised THEN call_
    ELSE [l \in DOMAIN call_ |->
            IF l \in DOMAIN monkey_patches_ THEN monkey_patches_[l] ELSE call_[l]]

(* Lines 621-624: the finally clause gives every layer its saved call. *)
revert_monkey_patches(call_, monkey_patches_, raised) ==
    [l \in DOMAIN call_ |->
        IF l \in DOMAIN monkey_patches_ THEN monkey_patches_[l] ELSE call_[l]]

InitIntercept ==
    /\ IsNestedModel(model)
    /\ stop = {}
    /\ config = DefaultConfig
    /\ pc = "start"
    /\ execution_list = <<>>
    /\ kept = <<>>
    /\ id_trace = [NoTrace EXCEPT !.err = "not run"]
    /\ bottleneck = [NoBottleneck EXCEPT !.err = "not run"]
    /\ bottleneck_tensor_list = [NoBottleneck EXCEPT !.err = "not run"]
    /\ reversed_tensors = EmptyDict
    /\ pos = 0
    /\ calls = <<>>
    /\ contribs = EmptyDict
    /\ result = <<>>
    /\ err = NoErr
    /\ last_op = NoOp
    /\ initialized_reverse_mappings = EmptyDict
    /\ finished = <<>>
    /\ bottleneck_tensors = {}
    /\ factory_calls = <<>>
    /\ call = AllOriginal(model)
    /\ monkey_patches = EmptyDict
    /\ recorded_nodes = <<>>
    /\ remap_pos = 0
    /\ suspended = NoCall

(* Lines 592-614: the call methods are saved and, inside the try block,    *)
(* replaced; patch raises on a method that is patched already.             *)
ApplyPatches ==
    /\ pc = "start"
    /\ contains_container(model)
    /\ monkey_patches' = [l \in get_model_layers(model) |-> call[l]]
    /\ IF \E l \in get_model_layers(model) : call[l] = "patched"
       THEN /\ err' = "Should not happen as we patch objects, not classes."
            /\ pc' = "finally"
            /\ call' = call
       ELSE /\ call' = [l \in DOMAIN call |->
                          IF l \in get_model_layers(model) THEN "patched" ELSE call[l]]
            /\ pc' = "patched"
            /\ err' = err
    /\ UNCHANGED <<suspended, model, traceVars, stop, config, reversed_tensors, pos, calls,
                   contribs, result, last_op, initialized_reverse_mappings, finished,
                   bottleneck_tensors, factory_calls, recorded_nodes, remap_pos>>

(* Lines 617-620: the re-execution of the model.  A patched call appends   *)
(* its record; the re-execution completes, or raises after n invocations.  *)
Reapply ==
    /\ pc = "patched"
    /\ LET run == RunNodes(model.containers, model.nodes, 1,
                           [t \in Range(model.inputs) |-> t], 0, <<>>).executed_nodes
       IN  \E n \in 0..Len(run) :
              /\ recorded_nodes' =
                    SelectSeq(SubSeq(run, 1, n), LAMBDA r : call[r.layer] = "patched")
              /\ err' = IF n < Len(run) THEN "Exception" ELSE NoErr
    /\ pc' = "finally"
    /\ UNCHANGED <<suspended, model, traceVars, stop, config, reversed_tensors, pos, calls,
                   contribs, result, last_op, initialized_reverse_mappings, finished,
                   bottleneck_tensors, factory_calls, call, monkey_patches, remap_pos>>

(* Lines 621-624: the finally clause; an exception of the try block goes   *)
(* on to the caller after it.                                              *)
RevertPatches ==
    /\ pc = "finally"
    /\ call' = revert_monkey_patches(call, monkey_patches, err # NoErr)
    /\ pc' = IF err # NoErr THEN "failed" ELSE "remap"
    /\ UNCHANGED <<suspended, model, traceVars, stop, config, reversed_tensors, pos, calls,
                   contribs, result, err, last_op, initialized_reverse_mappings,
                   finished, bottleneck_tensors, factory_calls, monkey_patches,
                   recorded_nodes, remap_pos>>

(* Lines 639-652, one record of the loop: a record that is not an          *)
(* InputLayer record re-applies its layer (line 648), which invokes the    *)
(* layer's call: a patched call would append a record.                     *)
RemapStep ==
    /\ pc = "remap"
    /\ remap_pos < Len(recorded_nodes)
    /\ LET rec == recorded_nodes[remap_pos + 1]
           new == Remap(recorded_nodes, 1, [t \in Range(model.inputs) |-> t], 0,
                        <<>>).new_executed_nodes[remap_pos + 1]
       IN  recorded_nodes' =
              IF ~IsInputLayer(rec.layer) /\ call[rec.layer] = "patched"
              THEN Append(recorded_nodes, new)
              ELSE recorded_nodes
    /\ remap_pos' = remap_pos + 1
    /\ UNCHANGED <<suspended, model, pc, traceVars, stop, config, reversed_tensors, pos, calls,
                   contribs, result, err, last_op, initialized_reverse_mappings,
                   finished, bottleneck_tensors, factory_calls, call, monkey_patches>>

(* Lines 654-681: the end of the remapping pass, the pruning pass and the  *)
(* return.                                                                 *)
TraceReturn ==
    /\ pc = "remap"
    /\ remap_pos = Len(recorded_nodes)
    /\ execution_list' = trace_model_execution(model).execution_list
    /\ kept' = trace_model_execution(model).kept
    /\ pc' = "traced"
    /\ UNCHANGED <<interceptVars, suspended, model, id_trace, bottleneck, bottleneck_tensor_list,
                   reverseVars, last_op>>

NextIntercept == ApplyPatches \/ Reapply \/ RevertPatches \/ RemapStep \/ TraceReturn

SpecIntercept == InitIntercept /\ [][NextIntercept]_vars

-----------------------------------------------------------------------------
(* reverse_model with the rules given per layer type or per layer, with    *)
(* or without a default rule, on the models of at most MaxRuleRecs records *)
(* that are not InputLayer records.                                        *)

MaxRuleRecs == 2

(* A dictionary with an entry for the layer type, for the instance         *)
(* Layer(1), for both or for neither; or a callable with a rule for some   *)
(* of the layers.                                                          *)
RuleSources ==
    {[callable |-> FALSE, by_type |-> bt, by_layer |-> bl] :
        bt \in {EmptyDict, [k \in {"layer"} |-> "identity"]},
        bl \in {EmptyDict, [l \in {Layer(1)} |-> "indexed"]}}
    \cup {[callable |-> TRUE, by_type |-> EmptyDict,
           by_layer |-> [l \in {Layer(n) : n \in S} |-> "identity"]] :
              S \in SUBSET (1..MaxRuleRecs)}

RuleConfigs ==
    {[DefaultConfig EXCEPT !.reverse_mappings = rm, !.default_reverse_mapping = d] :
        rm \in RuleSources, d \in Rules \cup {NoRule}}

InitRules ==
    /\ IsModel(model, FALSE)
    /\ NumLayers(model.nodes) <= MaxRuleRecs
    /\ stop \in StopSets
    /\ config \in RuleConfigs
    /\ InitCommon

SpecRules == InitRules /\ [][Next]_vars

-----------------------------------------------------------------------------
(* reverse_model on models with a shared layer: one layer, applied twice,  *)
(* has two records.  The rules of the layers are given in the three forms. *)
(* The models have one input and at most MaxSharedRecs records that are    *)
(* not InputLayer records.                                                 *)

MaxSharedRecs == 3

(* The record at q is a second application of the layer of the record at   *)
(* p, with as many input and output tensors (p = q: no layer is shared).   *)
IsSharedModel(m) ==
    LET inputs == <<1>> IN
    \E l1 \in Extend(inputs, <<>>, FALSE) :
    \E l2 \in Extend(inputs, l1, FALSE) :
    \E l3 \in Extend(inputs, l2, FALSE) :
    \E l4 \in Extend(inputs, l3, FALSE) :
    \E o \in OutputLists(l4) :
    \E p \in 1..Len(l4) : \E q \in p..Len(l4) :
       /\ HasInputRecord(l4) = Range(inputs)
       /\ NumLayers(l4) <= MaxSharedRecs
       /\ ~IsInputLayer(l4[p].layer)
       /\ ~IsInputLayer(l4[q].layer)
       /\ Len(l4[p].Xs) = Len(l4[q].Xs)
       /\ Len(l4[p].Ys) = Len(l4[q].Ys)
       /\ m = [inputs |-> inputs, outputs |-> o,
               nodes |-> [l4 EXCEPT ![q].layer = l4[p].layer]]

MetaMappings == {"indexed"} \cup RuleFactories \cup RuleClasses

(* A callable that gives the layers 1 and 2 a mapping of any form and the  *)
(* other layers the rule "identity".                                       *)
SharedConfigs ==
    {[DefaultConfig EXCEPT !.reverse_mappings.by_layer =
          [l \in {Layer(n) : n \in 1..MaxRecs} |->
              IF l = Layer(1) THEN m1 ELSE IF l = Layer(2) THEN m2 ELSE "identity"]] :
        m1 \in MetaMappings, m2 \in MetaMappings}

InitShared ==
    /\ IsSharedModel(model)
    /\ stop = {}
    /\ config \in SharedConfigs
    /\ InitCommon

SpecShared == InitShared /\ [][Next]_vars

-----------------------------------------------------------------------------
(* reverse_model with and without a clip range and a projection range, on  *)
(* the models of at most MaxClipRecs records that are not InputLayer       *)
(* records, with an empty stop-set.                                        *)

MaxClipRecs == 2

ClipConfigs ==
    {[DefaultConfig EXCEPT !.reverse_mappings = RuleForAll(rule),
                           !.clip_all_reversed_tensors = c,
                           !.project_bottleneck_tensors = p] :
        rule \in Rules, c \in {NoRange, ClipRange}, p \in {NoRange, ProjectRange}}

InitClip ==
    /\ IsModel(model, FALSE)
    /\ NumLayers(model.nodes) <= MaxClipRecs
    /\ stop = {}
    /\ config \in ClipConfigs
    /\ InitCommon

SpecClip == InitClip /\ [][Next]_vars

-----------------------------------------------------------------------------
(* contribute (add_reversed_tensor) and resolve (get_reversed_tensor)      *)
(* applied in any order to the tensors 1..OpsTensors, with values in       *)
(* 1..MaxVal.  A raise leaves the caller free to go on.                    *)

OpsTensors == 2
MaxVal == 2

InitOps ==
    /\ model = [inputs |-> <<>>, outputs |-> <<>>, nodes |-> <<>>]
    /\ pc = "ops"
    /\ execution_list = <<>>
    /\ kept = <<>>
    /\ id_trace = [NoTrace EXCEPT !.err = "not run"]
    /\ bottleneck = [NoBottleneck EXCEPT !.err = "not run"]
    /\ bottleneck_tensor_list = [NoBottleneck EXCEPT !.err = "not run"]
    /\ stop \in {S \in SUBSET (1..OpsTensors) : Cardinality(S) <= MaxStop}
    /\ config = DefaultConfig
    /\ reversed_tensors = EmptyDict
    /\ pos = 0
    /\ calls = <<>>
    /\ contribs = EmptyDict
    /\ result = <<>>
    /\ err = NoErr
    /\ last_op = NoOp
    /\ initialized_reverse_mappings = EmptyDict
    /\ finished = <<>>
    /\ bottleneck_tensors = {}
    /\ factory_calls = <<>>
    /\ call = AllOriginal(model)
    /\ monkey_patches = EmptyDict
    /\ recorded_nodes = <<>>
    /\ remap_pos = 0
    /\ suspended = NoCall

Contribute ==
    /\ pc = "ops"
    /\ \E t \in 1..OpsTensors : \E v \in 1..MaxVal :
          LET r == add_reversed_tensor(reversed_tensors, stop, 0, 0, t, v)
          IN  /\ reversed_tensors' = r.rt
              /\ err' = r.err
              /\ last_op' = [op |-> "contribute", tensor |-> t, value |-> v,
                             raised |-> r.err # NoErr]
    /\ UNCHANGED <<interceptVars, suspended, model, pc, traceVars, stop, config, pos, calls, contribs, result,
                   initialized_reverse_mappings, finished, bottleneck_tensors,
                   factory_calls>>

Resolve ==
    /\ pc = "ops"
    /\ \E t \in 1..OpsTensors :
          LET r == get_reversed_tensor(reversed_tensors, t)
          IN  /\ reversed_tensors' = r.rt
              /\ err' = IF r.value = None THEN "KeyError" ELSE NoErr
              /\ last_op' = [op |-> "resolve", tensor |-> t, value |-> r.value,
                             raised |-> r.value = None]
    /\ UNCHANGED <<interceptVars, suspended, model, pc, traceVars, stop, config, pos, calls, contribs, result,
                   initialized_reverse_mappings, finished, bottleneck_tensors,
                   factory_calls>>

NextOps == Contribute \/ Resolve

SpecOps == InitOps /\ [][NextOps]_vars

-----------------------------------------------------------------------------
(* Properties of the tracing functions (under SpecTrace).                  *)

Identified == pc \in {"identified", "analysed"}

PrimPositions(list) == {p \in 1..Len(list) : ~IsInputLayer(list[p].layer)}

SingleProducer(list) ==
    \A p \in PrimPositions(list) : \A q \in PrimPositions(list) :
        p # q => Range(list[p].Ys) \cap Range(list[q].Ys) = {}

(* C2: topological soundness.  Every input tensor of every kept record is  *)
(* a declared model input or an output tensor of a kept record with a      *)
(* strictly smaller node id (stated for well-formed node lists in forward  *)
(* topological order).                                                     *)
C2_TopologicalSoundness ==
    (Identified /\ SingleProducer(model.nodes)) =>
        \A p \in 1..Len(execution_list) : \A x \in Range(execution_list[p].Xs) :
            \/ x \in Range(model.inputs)
            \/ \E q \in 1..Len(execution_list) :
                  /\ id_trace.nids[q] # None
                  /\ id_trace.nids[p] # None
                  /\ id_trace.nids[q] < id_trace.nids[p]
                  /\ x \in Range(execution_list[q].Ys)

DuplicateProducer ==
    \E p \in PrimPositions(execution_list) : \E q \in PrimPositions(execution_list) :
        p # q /\ Range(execution_list[p].Ys) \cap Range(execution_list[q].Ys) # {}

(* C6: whenever one tensor is an output tensor of two distinct kept        *)
(* records, get_model_execution_trace fails with the duplicate-producer    *)
(* error instead of returning a trace.                                     *)
C6_DuplicateProducerRaises ==
    (Identified /\ DuplicateProducer) =>
        id_trace.err = "Cannot be more than one creating node."

(* C7: single-producer invariant.  In every pruned trace that              *)
(* get_model_execution_trace accepts without raising, each tensor is an    *)
(* output tensor of at most one record.                                    *)
C7_SingleProducerInvariant ==
    (Identified /\ id_trace.err = NoErr) => ~DuplicateProducer

KeptByRule(i) ==
    \A y \in Range(model.nodes[i].Ys) :
        \/ y \in Range(model.outputs)
        \/ \E j \in Range(kept) : j > i /\ y \in Range(model.nodes[j].Xs)

(* C8: pruning keeps a record exactly when every one of its output tensors *)
(* is a declared output or an input tensor of a later record that was      *)
(* itself kept; the pruned list is the kept records in order, and node ids *)
(* and the tensor-to-node indices refer to kept records only.              *)
C8_PruneKeepsExactlyNeeded ==
    /\ pc # "start" =>
         /\ \A i \in 1..Len(model.nodes) : (i \in Range(kept)) <=> KeptByRule(i)
         /\ Len(execution_list) = Len(kept)
         /\ \A k \in 1..Len(kept) : execution_list[k] = model.nodes[kept[k]]
         /\ \A k \in 1..Len(kept) : k > 1 => kept[k - 1] < kept[k]
    /\ Identified =>
         /\ Len(id_trace.nids) = Len(kept)
         /\ \A t \in DOMAIN id_trace.inputs_to_node :
              \A k \in 1..Len(id_trace.inputs_to_node[t]) :
                 \E p \in 1..Len(kept) :
                    /\ id_trace.nids[p] = id_trace.inputs_to_node[t][k]
                    /\ t \in Range(model.nodes[kept[p]].Xs)
         /\ \A t \in DOMAIN id_trace.outputs_to_node :
              \E p \in 1..Len(kept) :
                 /\ id_trace.nids[p] = id_trace.outputs_to_node[t]
                 /\ t \in Range(model.nodes[kept[p]].Ys)

(* C8 witness: a record outside the outputs' dependency set was dropped    *)
(* while other records were kept and identified.                           *)
C8_Witness ==
    /\ Identified
    /\ id_trace.err = NoErr
    /\ PrimPositions(execution_list) # {}
    /\ \E i \in 1..Len(model.nodes) :
          /\ i \notin Range(kept)
          /\ ~IsInputLayer(model.nodes[i].layer)
          /\ \E j \in Range(kept) : j > i

(* Forward adjacency of the pruned list, and the tensors reachable from    *)
(* the declared inputs when the tensors of removed are deleted.            *)
Edge(x, y) ==
    \E p \in PrimPositions(execution_list) :
        x \in Range(execution_list[p].Xs) /\ y \in Range(execution_list[p].Ys)

RECURSIVE Closure(_, _)
Closure(R, removed) ==
    LET R2 == R \cup {y \in Tensors \ removed : \E x \in R : Edge(x, y)}
    IN  IF R2 = R THEN R ELSE Closure(R2, removed)

Disconnects(removed) ==
    Closure(Range(model.inputs) \ removed, removed) \cap Range(model.outputs) = {}

(* C9: bottleneck correctness.  A record is returned by                    *)
(* get_bottleneck_nodes if and only if removing its output tensors         *)
(* disconnects every declared input from every declared output (stated for *)
(* well-formed lists on which the function returns).                       *)
C9_BottleneckIffCutPoint ==
    (pc = "analysed" /\ bottleneck.err = NoErr /\ SingleProducer(model.nodes)) =>
        \A p \in PrimPositions(execution_list) :
            (p \in Range(bottleneck.ret)) <=> Disconnects(Range(execution_list[p].Ys))

PrimRecords(list) == SelectSeq(list, LAMBDA r : ~IsInputLayer(r.layer))

PrimBefore(list, p) == Cardinality({q \in PrimPositions(list) : q < p})

(* C13: get_model_execution_trace gives the non-input records the ids      *)
(* 0, 1, ..., n-1 with no gap and no repeat, increasing in forward order,  *)
(* and gives every input-producing record the id none; with                *)
(* keep_input_layers false the returned list contains exactly the n        *)
(* identified records in id order.                                         *)
C13_DenseNodeIds ==
    Identified =>
        /\ Len(id_trace.nids) = Len(execution_list)
        /\ \A p \in 1..Len(execution_list) :
              id_trace.nids[p] = IF IsInputLayer(execution_list[p].layer)
                                 THEN None ELSE PrimBefore(execution_list, p)
        /\ (id_trace.err = NoErr /\ config.keep_input_layers) =>
              /\ Len(id_trace.trace) = Len(execution_list)
              /\ \A p \in 1..Len(execution_list) :
                    /\ id_trace.trace[p].nid = id_trace.nids[p]
                    /\ id_trace.trace[p].layer = execution_list[p].layer
        /\ (id_trace.err = NoErr /\ ~config.keep_input_layers) =>
              /\ Len(id_trace.trace) = Len(PrimRecords(execution_list))
              /\ \A k \in 1..Len(id_trace.trace) :
                    /\ id_trace.trace[k].nid = k - 1
                    /\ id_trace.trace[k].layer = PrimRecords(execution_list)[k].layer
                    /\ id_trace.trace[k].Xs = PrimRecords(execution_list)[k].Xs
                    /\ id_trace.trace[k].Ys = PrimRecords(execution_list)[k].Ys

(* C13 witness: a trace of two identified records was returned without the *)
(* input records, one of which stands between the two in the list.         *)
C13_Witness ==
    /\ Identified
    /\ id_trace.err = NoErr
    /\ ~config.keep_input_layers
    /\ Len(id_trace.trace) >= 2
    /\ \E p \in 1..Len(execution_list) : \E q \in 1..Len(execution_list) :
          /\ p < q
          /\ ~IsInputLayer(execution_list[p].layer)
          /\ IsInputLayer(execution_list[q].layer)
          /\ \E r \in PrimPositions(execution_list) : q < r

IdentifiedEntries == {k \in 1..Len(id_trace.trace) : id_trace.trace[k].nid # None}

Producers(t) ==
    {id_trace.trace[k].nid : k \in {q \in IdentifiedEntries : t \in Range(id_trace.trace[q].Ys)}}

Consumers(t) ==
    {id_trace.trace[k].nid : k \in {q \in IdentifiedEntries : t \in Range(id_trace.trace[q].Xs)}}

XsNidOf(j, t) ==
    {id_trace.trace[k].Xs_nids[i] :
        k \in {q \in IdentifiedEntries : id_trace.trace[q].nid = j},
        i \in {x \in 1..MaxLen : \E q \in IdentifiedEntries :
                  /\ id_trace.trace[q].nid = j
                  /\ x <= Len(id_trace.trace[q].Xs)
                  /\ id_trace.trace[q].Xs[x] = t}}

(* C20: in the returned list, for every identified record r, Xs_nids holds *)
(* per input tensor the id of the record that outputs it, or none when the *)
(* tensor is a graph input; Ys_nids holds per output tensor the ids of     *)
(* exactly the records that take it as input, or [none] when no record     *)
(* consumes it; and j occurs in r's Ys_nids for tensor t if and only if    *)
(* record j has t among its inputs and j's Xs_nids entry for t is r's id.  *)
C20_NodeLinks ==
    (Identified /\ id_trace.err = NoErr) =>
        \A k \in IdentifiedEntries :
            LET r == id_trace.trace[k] IN
            /\ Len(r.Xs_nids) = Len(r.Xs)
            /\ Len(r.Ys_nids) = Len(r.Ys)
            /\ \A i \in 1..Len(r.Xs) :
                  IF r.Xs[i] \in Range(model.inputs)
                  THEN r.Xs_nids[i] = None
                  ELSE r.Xs_nids[i] \in Producers(r.Xs[i])
            /\ \A i \in 1..Len(r.Ys) :
                  IF Consumers(r.Ys[i]) = {}
                  THEN r.Ys_nids[i] = <<None>>
                  ELSE Range(r.Ys_nids[i]) = Consumers(r.Ys[i])
            /\ \A i \in 1..Len(r.Ys) : \A j \in 0..(MaxRecs - 1) :
                  (j \in Range(r.Ys_nids[i])) <=>
                      (j \in Consumers(r.Ys[i]) /\ XsNidOf(j, r.Ys[i]) = {r.nid})

-----------------------------------------------------------------------------
(* Properties of reverse_model (under Spec).                               *)

AggregationErrors ==
    {"Wrong order, tensors already aggregated!", "Error during reverse tensor aggeregation."}

(* C1: fan-out.  A tensor consumed by k records (k >= 1, also k >= 3)      *)
(* receives one contribution per consuming occurrence, the run does not    *)
(* raise, and its finalized value is the sum of all contributions.         *)
C1_FanOutAggregates ==
    /\ err \notin AggregationErrors
    /\ \A t \in DOMAIN reversed_tensors :
          reversed_tensors[t].final_tensor # None =>
              reversed_tensors[t].final_tensor = SumSeq(contribs[t])

WantedInputs == SelectSeq(model.inputs, LAMBDA t : t \notin stop)

(* C3: reverse_model completes without raising and returns, in declared    *)
(* input order, one finalized value per model input outside the stop-set   *)
(* (stated for the runs in which pruning dropped no record and no tensor   *)
(* is handed more than two contributions).                                 *)
C3_ReturnsEveryInput ==
    (/\ execution_list = model.nodes
     /\ \A t \in DOMAIN contribs : Len(contribs[t]) <= 2) =>
        /\ pc # "failed"
        /\ pc = "done" =>
             /\ Len(result) = Len(WantedInputs)
             /\ \A k \in 1..Len(result) :
                   /\ result[k].tensor = WantedInputs[k]
                   /\ result[k].value = reversed_tensors[WantedInputs[k]].final_tensor

(* C4: stop-set exclusion.  At every point of a run no tensor of the       *)
(* stop-set is a key of reversed_tensors, and none has an entry in the     *)
(* returned list.                                                          *)
C4_StopSetExclusion ==
    /\ \A t \in stop : t \notin DOMAIN reversed_tensors
    /\ \A k \in 1..Len(result) : result[k].tensor \notin stop

(* C4 witness: a run returned after a value was handed to a tensor of the  *)
(* stop-set, and some other tensor was reversed.                           *)
C4_Witness ==
    /\ pc = "done"
    /\ \E t \in stop : t \in DOMAIN contribs
    /\ calls # <<>>
    /\ result # <<>>

(* C10: the node id passed to a record's rule equals the id that           *)
(* get_model_execution_trace assigns to the record, and the ids are seen   *)
(* from highest to lowest.                                                 *)
C10_RuleSeesAssignedNid ==
    /\ \A k \in 1..Len(calls) :
          calls[k].nid = AssignNids(execution_list, 1, 0)[calls[k].idx]
    /\ \A k \in 1..Len(calls) : k > 1 => calls[k].nid < calls[k - 1].nid

WalkOver == pc = "done" \/ (pc = "walk" /\ pos = Len(execution_list))

(* The stop-set tensors that a record of the list outputs and another one  *)
(* takes as input, and that are neither model inputs nor declared outputs. *)
StoppedIntermediate ==
    {t \in stop : /\ t \notin Range(model.inputs) \cup Range(model.outputs)
                  /\ \E x \in Tensors : Edge(x, t)
                  /\ \E y \in Tensors : Edge(t, y)}

Upstream(t) == {x \in Tensors \ {t} : t \in Closure({x}, {})}

(* x has a forward path to a declared output that avoids the stop-set. *)
ReachesOutput(x) ==
    x \notin stop /\ Closure({x}, stop) \cap Range(model.outputs) # {}

Invoked(p) == \E k \in 1..Len(calls) : calls[k].idx = p

ConsumerPositions(t) ==
    {p \in PrimPositions(execution_list) : t \in Range(execution_list[p].Xs)}

Occurrences(p, t) ==
    {i \in 1..Len(execution_list[p].Xs) : execution_list[p].Xs[i] = t}

ReturnedFor(p, t) ==
    {calls[k].reversed_Xs[i] : k \in {c \in 1..Len(calls) : calls[c].idx = p},
                               i \in Occurrences(p, t)}

TwoConsumers(t, X, Y) ==
    /\ X # Y
    /\ ConsumerPositions(t) = {X, Y}
    /\ Cardinality(Occurrences(X, t)) = 1
    /\ Cardinality(Occurrences(Y, t)) = 1
    /\ t \notin Range(model.outputs)
    /\ t \notin stop
    /\ Invoked(X)
    /\ Invoked(Y)

(* C14: when a tensor T is an input of exactly two records X and Y of the  *)
(* trace and is not a declared output, after the reverse walk T's          *)
(* finalized reverse value is the sum of the value X's rule returned for T *)
(* and the value Y's rule returned for T.                                  *)
C14_TwoConsumersSum ==
    WalkOver =>
        \A t \in Tensors : \A X \in 1..Len(execution_list) : \A Y \in 1..Len(execution_list) :
            TwoConsumers(t, X, Y) =>
                \A vx \in ReturnedFor(X, t) : \A vy \in ReturnedFor(Y, t) :
                    /\ t \in DOMAIN reversed_tensors
                    /\ get_reversed_tensor(reversed_tensors, t).value = vx + vy
                    /\ reversed_tensors[t].final_tensor \in {None, vx + vy}

(* C14 witness: a run returned in which a tensor with two consuming        *)
(* records was finalized from two different returned values.               *)
C14_Witness ==
    /\ pc = "done"
    /\ \E t \in Tensors : \E X \in 1..Len(execution_list) : \E Y \in 1..Len(execution_list) :
          /\ TwoConsumers(t, X, Y)
          /\ \E vx \in ReturnedFor(X, t) : \E vy \in ReturnedFor(Y, t) :
                vx # vy /\ reversed_tensors[t].final_tensor = vx + vy

(* The value the configured head transform gives to output tensor o. *)
HeadValue(o) == IF config.head_mapping = "double" THEN o + o ELSE o

(* The model is a linear chain: one input, one declared output, and every  *)
(* record takes the one tensor the record before it outputs.               *)
LinearChain ==
    /\ Len(model.inputs) = 1
    /\ Len(model.outputs) = 1
    /\ Len(model.nodes) >= 2
    /\ IsInputLayer(model.nodes[1].layer)
    /\ \A p \in 2..Len(model.nodes) :
          /\ ~IsInputLayer(model.nodes[p].layer)
          /\ Len(model.nodes[p].Ys) = 1
          /\ model.nodes[p].Xs = model.nodes[p - 1].Ys
    /\ model.outputs = model.nodes[Len(model.nodes)].Ys

(* C16: the head transform is applied to every declared output tensor and *)
(* the result is contributed to that output before any record is          *)
(* processed; for a linear chain of any length whose reverse rules are     *)
(* identities and with an empty stop-set, the returned reverse value of    *)
(* the model input equals the head-transformed value of the chain's output.*)
C16_SeedingAndLinearChain ==
    /\ pc # "start" =>
          \A k \in 1..Len(model.outputs) :
              /\ model.outputs[k] \in DOMAIN contribs
              /\ contribs[model.outputs[k]][1] = HeadValue(model.outputs[k])
              /\ model.outputs[k] \notin stop =>
                    /\ model.outputs[k] \in DOMAIN reversed_tensors
                    /\ reversed_tensors[model.outputs[k]].id = <<-1, k - 1>>
    /\ (pc = "walk" /\ pos = 0) =>
          /\ calls = <<>>
          /\ DOMAIN contribs = Range(model.outputs)
          /\ \A o \in DOMAIN reversed_tensors : reversed_tensors[o].tensor = HeadValue(o)
    /\ (LinearChain /\ stop = {} /\ config.reverse_mappings = RuleForAll("identity")) =>
          /\ pc # "failed"
          /\ pc = "done" =>
                result = <<[tensor |-> model.inputs[1], value |-> HeadValue(model.outputs[1])]>>

(* C16 witness: a chain of MaxRecs records was reversed with identity      *)
(* rules and a head transform that is not the identity.                    *)
C16_Witness ==
    /\ pc = "done"
    /\ LinearChain
    /\ stop = {}
    /\ config.reverse_mappings = RuleForAll("identity")
    /\ config.head_mapping = "double"
    /\ Len(calls) = MaxRecs
    /\ result[1].value = 2 * model.outputs[1]

-----------------------------------------------------------------------------
(* Properties of contribute / resolve (under SpecOps).                     *)

Finalized(t) ==
    t \in DOMAIN reversed_tensors /\ reversed_tensors[t].final_tensor # None

(* C5: a contribute that arrives after the tensor has been finalized by    *)
(* resolve fails with an error and leaves the tensor's state unchanged,    *)
(* whether it was finalized from a single value or from a list.            *)
C5_ContributeAfterFinalFails ==
    [][(last_op'.op = "contribute" /\ Finalized(last_op'.tensor)
        /\ last_op'.tensor \notin stop)
       => (last_op'.raised /\ reversed_tensors' = reversed_tensors)]_vars

(* Two contributes to tensor t in the given order, then a resolve: the     *)
(* exception raised, or the value returned.                                *)
ContributeTwiceResolve(rt, t, v1, v2) ==
    LET first == add_reversed_tensor(rt, stop, 0, 0, t, v1)
        second == add_reversed_tensor(first.rt, stop, 0, 0, t, v2)
    IN  IF first.err # NoErr THEN [err |-> first.err, value |-> None]
        ELSE IF second.err # NoErr THEN [err |-> second.err, value |-> None]
        ELSE [err |-> NoErr, value |-> get_reversed_tensor(second.rt, t).value]

(* C15: aggregation commutativity.  For all values v1 and v2, contributing *)
(* v1 then v2 to a tensor and then resolving it yields the same finalized  *)
(* value as contributing v2 then v1 and then resolving it.                 *)
C15_AggregationCommutes ==
    \A t \in 1..OpsTensors : \A v1 \in 1..MaxVal : \A v2 \in 1..MaxVal :
        ContributeTwiceResolve(reversed_tensors, t, v1, v2)
            = ContributeTwiceResolve(reversed_tensors, t, v2, v1)

(* C15 witness: a tensor was contributed two different values and then     *)
(* resolved to their sum.                                                  *)
C15_Witness ==
    \E t \in DOMAIN reversed_tensors :
        /\ Len(reversed_tensors[t].tensors) = 2
        /\ reversed_tensors[t].tensors[1] # reversed_tensors[t].tensors[2]
        /\ reversed_tensors[t].final_tensor
              = reversed_tensors[t].tensors[1] + reversed_tensors[t].tensors[2]
        /\ last_op.op = "resolve"
        /\ last_op.tensor = t

-----------------------------------------------------------------------------
(* Properties of the nested-graph path (under SpecNested).                 *)

(* C11: for a model that contains nested sub-graphs, every record of the   *)
(* trace returned by trace_model_execution belongs to a primitive          *)
(* (non-container) node, so the reverse walk never reaches its 'container  *)
(* in trace' failure branch.                                               *)
C11_TraceHasNoContainer ==
    /\ pc # "start" =>
          \A p \in 1..Len(execution_list) : ~is_network(execution_list[p].layer)
    /\ err # "This is not supposed to happen!"

-----------------------------------------------------------------------------
(* Properties of the rule resolution (under SpecRules).                    *)

(* The rule source yields no rule for the layer and there is no default. *)
HasNoRule(layer) ==
    reverse_mappings(config, layer) = NoRule /\ config.default_reverse_mapping = NoRule

(* The position of the record the last ReverseStep looked at. *)
LastPosition == Len(execution_list) - pos + 1

Reached(p) == \A y \in Range(execution_list[p].Ys) : y \in DOMAIN reversed_tensors

(* C17: when the rule source yields no rule for a node and no default rule *)
(* is configured, reverse_model does not fail while resolving rules up     *)
(* front; it fails only when the walk first processes a record of that     *)
(* node, and a run in which every record of that node is skipped completes *)
(* without that error.                                                     *)
C17_MissingRuleFailsLazily ==
    /\ (pc = "walk" /\ pos = 0) => err = NoErr
    /\ err = "TypeError" =>
          /\ pc = "failed"
          /\ pos >= 1
          /\ ~IsInputLayer(execution_list[LastPosition].layer)
          /\ HasNoRule(execution_list[LastPosition].layer)
          /\ Reached(LastPosition)
    /\ \A k \in 1..Len(calls) : ~HasNoRule(execution_list[calls[k].idx].layer)
    /\ pc \in {"walk", "done"} =>
          \A p \in PrimPositions(execution_list) :
              (p >= LastPosition /\ HasNoRule(execution_list[p].layer)) => ~Reached(p)
    /\ (pc = "failed" /\ err # "TypeError") =>
          \A p \in PrimPositions(execution_list) :
              (p > LastPosition /\ HasNoRule(execution_list[p].layer)) => ~Reached(p)

(* C17 witness: a run returned although a record of its trace belongs to a *)
(* layer without a rule; the record was skipped, others were reversed.     *)
C17_Witness ==
    /\ pc = "done"
    /\ calls # <<>>
    /\ \E p \in PrimPositions(execution_list) :
          HasNoRule(execution_list[p].layer) /\ ~Invoked(p)

(* The rule the resolution order of the claim selects for the layer. *)
RuleByOrder(layer) ==
    IF layer \in DOMAIN config.reverse_mappings.by_layer
    THEN config.reverse_mappings.by_layer[layer]
    ELSE IF layer.kind \in DOMAIN config.reverse_mappings.by_type
    THEN config.reverse_mappings.by_type[layer.kind]
    ELSE config.default_reverse_mapping

(* C18: rule resolution for a node follows the order: a rule explicitly    *)
(* bound to that node instance, else a rule associated with the node's     *)
(* type, else the caller-provided default rule, else failure; the default  *)
(* rule is selected only when neither an instance-bound nor a type-bound   *)
(* rule exists.                                                            *)
C18_ResolutionOrder ==
    pc # "start" =>
        \A layer \in DOMAIN initialized_reverse_mappings :
            ~IsInputLayer(layer) => initialized_reverse_mappings[layer] = RuleByOrder(layer)

-----------------------------------------------------------------------------
(* Properties of the order of the reverse walk (under Spec).               *)

(* The positions of the list the walk has already looked at. *)
Visited(p) == p > Len(execution_list) - pos

(* C21: aggregate-before-read ordering.  A record is processed only after  *)
(* every record consuming any of its output tensors has been processed or  *)
(* skipped, so no tensor receives a contribution after resolve has         *)
(* finalized it: when a tensor is first resolved, every contribution it    *)
(* will ever get in this run has already arrived.                          *)
C21_AggregateBeforeRead ==
    /\ [](\A t \in DOMAIN reversed_tensors :
            reversed_tensors[t].final_tensor # None =>
                \A p \in PrimPositions(execution_list) :
                    t \in Range(execution_list[p].Xs) => Visited(p))
    /\ [][\A t \in DOMAIN reversed_tensors :
            reversed_tensors[t].final_tensor # None =>
                /\ t \in DOMAIN reversed_tensors'
                /\ reversed_tensors'[t] = reversed_tensors[t]
                /\ contribs'[t] = contribs[t]]_vars

(* C21 witness: a run returned in which a tensor with two contributions    *)
(* was resolved when the record producing it was reversed.                 *)
C21_Witness ==
    /\ pc = "done"
    /\ \E t \in DOMAIN reversed_tensors : \E p \in PrimPositions(execution_list) :
          /\ t \in Range(execution_list[p].Ys)
          /\ Invoked(p)
          /\ Len(contribs[t]) = 2
          /\ reversed_tensors[t].final_tensor = contribs[t][1] + contribs[t][2]

-----------------------------------------------------------------------------
(* Properties of the single operations (under SpecOps).                    *)

(* The dictionary is the same except, possibly, at tensor t. *)
SameElsewhere(t) ==
    /\ DOMAIN reversed_tensors' = DOMAIN reversed_tensors \cup {t}
    /\ \A x \in DOMAIN reversed_tensors : x # t => reversed_tensors'[x] = reversed_tensors[x]

(* C22: contribute (add_reversed_tensor) on a tensor outside the stop-set: *)
(* with no earlier contribution it creates the entry with the value as the *)
(* single pending value, no list and no final value; with one pending      *)
(* value it replaces the state by the list of the earlier value followed   *)
(* by the new value and clears the pending slot.  A contribute on a        *)
(* stop-set tensor changes nothing.                                        *)
C22_ContributeSteps ==
    [][last_op'.op = "contribute" =>
          LET t == last_op'.tensor
              v == last_op'.value
          IN  /\ t \in stop => (reversed_tensors' = reversed_tensors /\ ~last_op'.raised)
              /\ (t \notin stop /\ t \notin DOMAIN reversed_tensors) =>
                    /\ ~last_op'.raised
                    /\ SameElsewhere(t)
                    /\ reversed_tensors'[t].tensor = v
                    /\ reversed_tensors'[t].tensors = <<>>
                    /\ reversed_tensors'[t].final_tensor = None
              /\ (/\ t \notin stop
                  /\ t \in DOMAIN reversed_tensors
                  /\ reversed_tensors[t].tensor # None
                  /\ reversed_tensors[t].tensors = <<>>) =>
                    /\ ~last_op'.raised
                    /\ SameElsewhere(t)
                    /\ reversed_tensors'[t].tensors = <<reversed_tensors[t].tensor, v>>
                    /\ reversed_tensors'[t].tensor = None]_vars

(* C22 witness: the last operation was the second contribute to a tensor,  *)
(* with a value other than the first, and a stop-set tensor was given.     *)
C22_Witness ==
    /\ last_op.op = "contribute"
    /\ ~last_op.raised
    /\ stop # {}
    /\ last_op.tensor \in DOMAIN reversed_tensors
    /\ Len(reversed_tensors[last_op.tensor].tensors) = 2
    /\ reversed_tensors[last_op.tensor].tensors[2] = last_op.value
    /\ reversed_tensors[last_op.tensor].tensors[1] # last_op.value
    /\ reversed_tensors[last_op.tensor].tensor = None

(* The value a first resolve of tensor t computes from its state. *)
BaseValue(t) ==
    IF reversed_tensors[t].tensor # None THEN reversed_tensors[t].tensor
    ELSE reversed_tensors[t].tensors[1] + reversed_tensors[t].tensors[2]

(* C23: resolve (get_reversed_tensor) computes a tensor's final value at   *)
(* most once: the first call stores it, every later call returns that     *)
(* same stored value without recomputing it, and no later operation,       *)
(* further contribute calls included, changes the stored final value.      *)
C23_ResolveOnce ==
    [][\A t \in DOMAIN reversed_tensors :
          /\ t \in DOMAIN reversed_tensors'
          /\ reversed_tensors[t].final_tensor # None =>
                /\ reversed_tensors'[t].final_tensor = reversed_tensors[t].final_tensor
                /\ (last_op'.op = "resolve" /\ last_op'.tensor = t) =>
                      (last_op'.value = reversed_tensors[t].final_tensor /\ ~last_op'.raised)
          /\ (/\ reversed_tensors[t].final_tensor = None
              /\ last_op'.op = "resolve"
              /\ last_op'.tensor = t) =>
                /\ last_op'.value = BaseValue(t)
                /\ reversed_tensors'[t].final_tensor = BaseValue(t)]_vars

(* C23 witness: a resolve returned the stored final value of a tensor      *)
(* whose state a later contribute had changed, so that computing it anew   *)
(* would give another value.                                               *)
C23_Witness ==
    /\ last_op.op = "resolve"
    /\ ~last_op.raised
    /\ last_op.tensor \in DOMAIN reversed_tensors
    /\ Len(reversed_tensors[last_op.tensor].tensors) = 2
    /\ last_op.value = reversed_tensors[last_op.tensor].final_tensor
    /\ last_op.value # BaseValue(last_op.tensor)

-----------------------------------------------------------------------------
(* Properties of the skip test of the reverse walk (under Spec).           *)

(* The record the next iteration of the loop looks at. *)
CurrentPosition == Len(execution_list) - pos

CallsOf(p) == {k \in 1..Len(calls) : calls[k].idx = p}

(* C24: during the reverse walk, a non-input record with at least one      *)
(* output tensor that has no entry is skipped entirely: its reverse rule   *)
(* is not invoked, none of its output tensors is resolved, and none of its *)
(* input tensors receives a contribution from it; every other non-input    *)
(* record has its rule invoked exactly once.                               *)
C24_SkipUnreached ==
    /\ [][(pc = "walk" /\ pos' = pos + 1
            /\ ~IsInputLayer(execution_list[CurrentPosition].layer)) =>
              IF \E y \in Range(execution_list[CurrentPosition].Ys) :
                    y \notin DOMAIN reversed_tensors
              THEN /\ calls' = calls
                   /\ reversed_tensors' = reversed_tensors
                   /\ contribs' = contribs
                   /\ err' = err
              ELSE /\ Len(calls') = Len(calls) + 1
                   /\ calls'[Len(calls')].idx = CurrentPosition
                   /\ \A k \in 1..Len(calls) : calls'[k] = calls[k]]_vars
    /\ [](pc # "start" =>
            \A p \in PrimPositions(execution_list) :
                /\ Cardinality(CallsOf(p)) <= 1
                /\ Visited(p) => (Invoked(p) <=> Reached(p))
                /\ ~Visited(p) => ~Invoked(p))

(* C24 witness: a run returned in which a record was skipped although one  *)
(* of its two output tensors had an entry, and another record was reversed.*)
C24_Witness ==
    /\ pc = "done"
    /\ calls # <<>>
    /\ \E p \in PrimPositions(execution_list) :
          /\ ~Invoked(p)
          /\ \E y \in Range(execution_list[p].Ys) : y \in DOMAIN reversed_tensors
          /\ \E y \in Range(execution_list[p].Ys) : y \notin DOMAIN reversed_tensors

-----------------------------------------------------------------------------
(* Properties of the bottleneck analysis (under SpecTrace).                *)

(* Every declared input is an input tensor of some record of the list. *)
InputsConsumed ==
    \A x \in Range(model.inputs) :
        \E p \in PrimPositions(execution_list) : x \in Range(execution_list[p].Xs)

(* C25: in get_bottleneck_nodes, for every pruned trace in forward         *)
(* topological order whose declared inputs are each consumed by some       *)
(* record, the assertion that each output tensor of the current record is  *)
(* in the open set never fails, also when a declared output tensor is an   *)
(* input of a later record.                                                *)
C25_AssertionNeverFails ==
    (pc = "analysed" /\ SingleProducer(model.nodes) /\ InputsConsumed) =>
        bottleneck.err # "AssertionError"

-----------------------------------------------------------------------------
(* Properties of clipping and projection (under SpecClip).                 *)

(* The final value of the claim for tensor t: clip(project(base)). *)
ClipProjectBase(t) ==
    LET projected == IF config.project_bottleneck_tensors.set /\ t \in bottleneck_tensors
                     THEN Project(config.project_bottleneck_tensors.range, BaseValue(t))
                     ELSE BaseValue(t)
    IN  IF config.clip_all_reversed_tensors.set
        THEN Clip(config.clip_all_reversed_tensors.range, projected)
        ELSE projected

(* C26: the final value of a tensor is clip(project(base)) with the steps  *)
(* applied in that order: range projection is applied exactly when         *)
(* projection is configured and the tensor is in the bottleneck set,       *)
(* clipping is applied exactly when a clip range is configured, and the    *)
(* base is the single pending value or the sum of the aggregated list.     *)
C26_ClipAfterProject ==
    [][\A t \in DOMAIN reversed_tensors :
          (/\ reversed_tensors[t].final_tensor = None
           /\ t \in DOMAIN reversed_tensors'
           /\ reversed_tensors'[t].final_tensor # None) =>
              reversed_tensors'[t].final_tensor = ClipProjectBase(t)]_vars

(* C26 witness: with both ranges configured, a run returned in which a     *)
(* bottleneck tensor was finalized to the clipped projection, which is not *)
(* its clipped base, and a tensor outside the bottleneck set with two      *)
(* contributions was finalized to their clipped sum.                       *)
C26_Witness ==
    /\ pc = "done"
    /\ config.clip_all_reversed_tensors.set
    /\ config.project_bottleneck_tensors.set
    /\ \E t \in bottleneck_tensors :
          /\ t \in DOMAIN reversed_tensors
          /\ reversed_tensors[t].final_tensor
                = Clip(ClipRange.range, Project(ProjectRange.range, 0))
          /\ reversed_tensors[t].final_tensor # Clip(ClipRange.range, BaseValue(t))
    /\ \E t \in DOMAIN reversed_tensors :
          /\ t \notin bottleneck_tensors
          /\ Len(reversed_tensors[t].tensors) = 2
          /\ reversed_tensors[t].final_tensor
                = Clip(ClipRange.range, SumSeq(reversed_tensors[t].tensors))

-----------------------------------------------------------------------------
(* Properties of the rule initialization (under SpecShared).               *)

LayersOf(nodes) == {nodes[p].layer : p \in 1..Len(nodes)}

(* The mapping the caller gave for the layer, and the rule it stands for. *)
MetaOf(layer) ==
    IF layer \in DOMAIN config.reverse_mappings.by_layer
    THEN config.reverse_mappings.by_layer[layer] ELSE NoRule

RuleOfMeta(meta) ==
    IF meta = "make_indexed" THEN "indexed"
    ELSE IF meta = "IdentityMapping" THEN "identity"
    ELSE meta

FactoryCallsFor(layer) == {k \in 1..Len(factory_calls) : factory_calls[k] = layer}

(* C27: in one reversal run the rule of each node is resolved exactly once *)
(* (a rule factory or rule class is called once per node), before the walk *)
(* starts, and every record of a node that is invoked several times in the *)
(* trace is reversed with that same resolved rule.                         *)
C27_RuleResolvedOnce ==
    /\ [](pc # "start" =>
            /\ DOMAIN initialized_reverse_mappings = LayersOf(model.nodes)
            /\ \A layer \in LayersOf(model.nodes) :
                  /\ Cardinality(FactoryCallsFor(layer))
                        = IF MetaOf(layer) \in {"make_indexed", "IdentityMapping"}
                          THEN 1 ELSE 0
                  /\ ~IsInputLayer(layer) =>
                        initialized_reverse_mappings[layer] = RuleOfMeta(MetaOf(layer))
            /\ \A k \in 1..Len(calls) :
                  LET rec == execution_list[calls[k].idx]
                  IN  calls[k].reversed_Xs
                        = [i \in 1..Len(rec.Xs) |->
                              IF RuleOfMeta(MetaOf(rec.layer)) = "identity"
                              THEN SumSeq(calls[k].reversed_Ys)
                              ELSE SumSeq(calls[k].reversed_Ys) + i])
    /\ [][pc # "start" =>
            /\ initialized_reverse_mappings' = initialized_reverse_mappings
            /\ factory_calls' = factory_calls]_vars

(* C27 witness: a run returned in which two records of one layer, whose    *)
(* rule comes from a factory, were reversed, and a layer with a rule class *)
(* was reversed as well.                                                   *)
C27_Witness ==
    /\ pc = "done"
    /\ \E k1 \in 1..Len(calls) : \E k2 \in 1..Len(calls) :
          /\ k1 # k2
          /\ execution_list[calls[k1].idx].layer = execution_list[calls[k2].idx].layer
          /\ MetaOf(execution_list[calls[k1].idx].layer) = "make_indexed"
    /\ \E k \in 1..Len(calls) : MetaOf(execution_list[calls[k].idx].layer) = "IdentityMapping"
    /\ Len(factory_calls) = 2

-----------------------------------------------------------------------------
(* Properties of get_bottleneck_tensors (under SpecBottleneck).            *)

BottleneckNodes == get_bottleneck_nodes(model.inputs, model.outputs, execution_list)

(* The tensor lists of the bottleneck records in the order of the loops:   *)
(* slot 2k - 1 is the input list of the k-th bottleneck record, slot 2k    *)
(* its output list.                                                        *)
BottleneckSlot(n) ==
    LET rec == execution_list[BottleneckNodes.ret[(n + 1) \div 2]]
    IN  IF n % 2 = 1 THEN rec.Xs ELSE rec.Ys

BottleneckSlots == 1..(2 * Len(BottleneckNodes.ret))

SoleSlots(t) == {n \in BottleneckSlots : BottleneckSlot(n) = <<t>>}

FirstSlot(t) == CHOOSE n \in SoleSlots(t) : \A n2 \in SoleSlots(t) : n <= n2

(* C28: get_bottleneck_tensors returns a list without repeats, in order of *)
(* first occurrence along the bottleneck records (input side before output *)
(* side), that holds exactly the sole input tensor of every bottleneck     *)
(* record with one input and the sole output tensor of every bottleneck    *)
(* record with one output; a list of several tensors adds nothing.         *)
C28_BottleneckTensors ==
    (pc = "tensors" /\ bottleneck_tensor_list.err = NoErr) =>
        LET ret == bottleneck_tensor_list.ret IN
        /\ BottleneckNodes.err = NoErr
        /\ \A i \in 1..Len(ret) : \A j \in 1..Len(ret) : i # j => ret[i] # ret[j]
        /\ Range(ret) = {t \in Tensors : SoleSlots(t) # {}}
        /\ \A i \in 1..Len(ret) : \A j \in 1..Len(ret) :
              i < j => FirstSlot(ret[i]) < FirstSlot(ret[j])

(* C28 witness: a list of two or more tensors was returned for a trace in  *)
(* which one tensor is the sole tensor of two slots, and a bottleneck      *)
(* record with a list of two tensors added nothing for that list.          *)
C28_Witness ==
    /\ pc = "tensors"
    /\ bottleneck_tensor_list.err = NoErr
    /\ Len(bottleneck_tensor_list.ret) >= 2
    /\ \E t \in Tensors : Cardinality(SoleSlots(t)) >= 2
    /\ \E n \in BottleneckSlots :
          /\ Len(BottleneckSlot(n)) = 2
          /\ Range(BottleneckSlot(n)) \cap Range(bottleneck_tensor_list.ret) = {}

-----------------------------------------------------------------------------
(* Properties of the remapping pass of the nested path (under SpecNested). *)

(* new_executed_nodes after the loop of lines 639-652. *)
RemappedNodes == executed_nodes_nested(model).executed_nodes

(* t is an output that re-applying a record before position i created. *)
CanonicalOutputBefore(t, i) ==
    \E j \in 1..(i - 1) :
       /\ ~IsInputLayer(RemappedNodes[j].layer)
       /\ t \in Range(RemappedNodes[j].Ys)

(* C29: after the remapping pass of the nested path every input tensor of  *)
(* every record that is not an InputLayer record is a declared input of    *)
(* the model or the output created by re-applying an earlier record, never *)
(* a tensor of the intercepted re-execution, also when the InputLayer of a *)
(* container was recorded for a tensor that an earlier record produced.    *)
C29_OneNamespace ==
    (pc # "start" /\ contains_container(model)) =>
        \A i \in 1..Len(RemappedNodes) :
           ~IsInputLayer(RemappedNodes[i].layer) =>
              \A k \in 1..Len(RemappedNodes[i].Xs) :
                 \/ RemappedNodes[i].Xs[k] \in Range(model.inputs)
                 \/ CanonicalOutputBefore(RemappedNodes[i].Xs[k], i)

-----------------------------------------------------------------------------
(* Properties of the interception (under SpecIntercept).                   *)

(* trace_model_execution has left the try statement of lines 595-624. *)
LeftInterception == pc \in {"remap", "failed", "traced"}

(* C30: interception is scoped: once trace_model_execution has left the    *)
(* intercepted re-execution, completed or raised, the call of every layer  *)
(* is the one it had before the interception, and no invocation made from  *)
(* then on is appended to the recorded list.                               *)
C30_InterceptionScoped ==
    /\ [](LeftInterception => call = AllOriginal(model))
    /\ [][LeftInterception => recorded_nodes' = recorded_nodes]_vars

(* C30 witness: the re-execution raised after it had recorded invocations, *)
(* and trace_model_execution has left with the exception.                  *)
C30_Witness ==
    /\ pc = "failed"
    /\ err = "Exception"
    /\ Len(recorded_nodes) >= 2
    /\ \E l \in DOMAIN monkey_patches : ~IsInputLayer(l)

-----------------------------------------------------------------------------
(* Properties of the pruning pass as a function (under SpecTrace).         *)

(* The positions the pruning pass keeps when it is given the pruned list   *)
(* and the same declared outputs.                                          *)
PrunedAgain ==
    PruneScan(execution_list, Len(execution_list), Range(model.outputs), <<>>)

(* C33: the pruning pass preserves the order of the records it keeps, and  *)
(* applied again to the pruned list with the same declared outputs it      *)
(* removes nothing: one reverse scan reaches the fixed point.              *)
C33_PruneIdempotent ==
    pc # "start" =>
        /\ \A a \in 1..Len(kept) : \A b \in 1..Len(kept) : a < b => kept[a] < kept[b]
        /\ execution_list = [k \in 1..Len(kept) |-> model.nodes[kept[k]]]
        /\ PrunedAgain = [k \in 1..Len(execution_list) |-> k]

(* C33 witness: the pass dropped a record that lies between two records it *)
(* kept, and the pruned list has two or more layer records.                *)
C33_Witness ==
    /\ pc = "traced"
    /\ Cardinality(PrimPositions(execution_list)) >= 2
    /\ \E i \in 1..Len(model.nodes) :
          /\ i \notin Range(kept)
          /\ ~IsInputLayer(model.nodes[i].layer)
          /\ \E a \in Range(kept) : a < i /\ ~IsInputLayer(model.nodes[a].layer)
          /\ \E b \in Range(kept) : b > i

-----------------------------------------------------------------------------
(* Well-formedness of the ReverseTensorDict entries (under Spec).          *)

(* Exactly one of "tensor" and "tensors" is set, and a list has two        *)
(* elements.                                                               *)
WellFormedEntry(e) ==
    /\ (e.tensor # None) # (e.tensors # <<>>)
    /\ e.tensors # <<>> => Len(e.tensors) = 2

(* C32: in every reachable state of a reversal run each entry of the       *)
(* reversed_tensors map has exactly one of the pending value and the       *)
(* aggregated list set, an aggregated list has exactly two elements, an    *)
(* entry is created without a final value, and a final value, once set, is *)
(* the value computed from the contributions present when it was first     *)
(* resolved and never changes.                                             *)
C32_ReverseStateWellFormed ==
    /\ [](\A t \in DOMAIN reversed_tensors : WellFormedEntry(reversed_tensors[t]))
    /\ [][/\ \A t \in DOMAIN reversed_tensors :
              /\ t \in DOMAIN reversed_tensors'
              /\ reversed_tensors[t].final_tensor # None =>
                    reversed_tensors'[t].final_tensor = reversed_tensors[t].final_tensor
              /\ (/\ reversed_tensors[t].final_tensor = None
                  /\ reversed_tensors'[t].final_tensor # None) =>
                    reversed_tensors'[t].final_tensor = ClipProjectBase(t)
          /\ \A t \in (DOMAIN reversed_tensors') \ (DOMAIN reversed_tensors) :
                reversed_tensors'[t].final_tensor = None]_vars

(* C32 witness: a run returned with an entry that holds an aggregated list *)
(* and its sum as final value, an entry that holds a pending value and     *)
(* that value as final value, and an entry that was never resolved.        *)
C32_Witness ==
    /\ pc = "done"
    /\ \E t \in DOMAIN reversed_tensors :
          /\ reversed_tensors[t].tensors # <<>>
          /\ reversed_tensors[t].tensor = None
          /\ reversed_tensors[t].final_tensor
                = reversed_tensors[t].tensors[1] + reversed_tensors[t].tensors[2]
    /\ \E t \in DOMAIN reversed_tensors :
          /\ reversed_tensors[t].tensor # None
          /\ reversed_tensors[t].final_tensor = reversed_tensors[t].tensor
    /\ \E t \in DOMAIN reversed_tensors : reversed_tensors[t].final_tensor = None

-----------------------------------------------------------------------------
(* Properties of calls that share a trace (under SpecInterleaved).         *)

(* The call has returned or raised as the call that ran alone did. *)
SameOutcome(c) ==
    /\ c.result = finished[1].result
    /\ c.err = finished[1].err
    /\ c.reversed_tensors = finished[1].reversed_tensors

(* C31: reverse_model, get_bottleneck_nodes and get_bottleneck_tensors     *)
(* leave the execution list they are given as it is (same records, same    *)
(* order, same input and output tensor lists), so two reverse_model calls  *)
(* on one precomputed trace, each with its own reversed_tensors and with   *)
(* their steps interleaved in any order, end as the call that ran alone.   *)
C31_SharedTraceReadOnly ==
    /\ [][finished # <<>> => execution_list' = execution_list]_vars
    /\ [](finished # <<>> =>
            /\ execution_list = trace_model_execution(model).execution_list
            /\ pc \in {"done", "failed"} => SameOutcome(ActiveCall)
            /\ suspended.pc \in {"done", "failed"} => SameOutcome(suspended))

(* C31 witness: both calls are in the middle of their walks, at different  *)
(* positions and each with rule invocations made, on a list in which one   *)
(* tensor is the input of two records, and get_bottleneck_tensors was      *)
(* called on the list.                                                     *)
C31_Witness ==
    /\ finished # <<>>
    /\ pc = "walk"
    /\ pos >= 1
    /\ calls # <<>>
    /\ suspended.pc = "walk"
    /\ suspended.pos >= 1
    /\ suspended.calls # <<>>
    /\ pos # suspended.pos
    /\ bottleneck_tensor_list.err = NoErr
    /\ \E t \in Tensors :
          Cardinality({p \in PrimPositions(execution_list) :
                         t \in Range(execution_list[p].Xs)}) >= 2

====
